---- MODULE Spec2Model ----
(***************************************************************************)
(* Dry Spell: rainwater tank sizing.                                       *)
(*                                                                         *)
(* The water-balance simulator (js/water-balance.js) and the tank-size     *)
(* search built on it (js/security-mode.js).                               *)
(*                                                                         *)
(* Arithmetic.  The JavaScript works in floating point litres.  Here every *)
(* volume is an integer number of hundredths of a litre, so that the       *)
(* factors 0.85 (runoff), 0.20 (stress threshold) and 1/2 (default initial *)
(* level, 50% mark) are exact: a fraction f of X litres is X * (100 f)     *)
(* units.  Fractions 0..1 are held as percent (runoffCoefficient,          *)
(* stressThreshold) or per-mille (confidence), and reliabilityPercent is   *)
(* the exact ratio num/den.  Floating-point rounding is not modelled.      *)
(***************************************************************************)
EXTENDS Integers, Sequences, FiniteSets, TLC

VARIABLES
    config,      \* the argument of the runWaterBalance call under way
    pc,          \* position of that call: "entry", "loop", "returned", "threw"
    st,          \* its local variables (water-balance.js:60-77)
    result,      \* what it returned, or null
    search,      \* argument and locals of findMinimumTankForConfidence
    spc,         \* position of the search: "idle", "entry", "loop", "verify", "returned", "threw"
    tankSizing,  \* what the search returned, or null
    simRuns,     \* the tank sizes the search has passed to the simulator, in order
    earlier,     \* the runWaterBalance calls made before the one under way
    opp,         \* analyzeOpportunisticMode: position, arguments, locals, result
    sweep,       \* analyzeSmallterTanks: position, arguments, result
    spells,      \* analyzeDrySpells: position, arguments, locals, result
    app,         \* the page: the state object of app.js and the elements it sets
    tasks        \* the processFile invocations under way, each with its position

vars ==
    <<config, pc, st, result, search, spc, tankSizing, simRuns, earlier, opp, sweep,
      spells, app, tasks>>

---------------------------------------------------------------------------
(* Bounds of the model *)

\* longest rainfall series explored
MaxDays == 3

\* days in a model year, so that series cross a year boundary
YearLength == 2

\* calls of runWaterBalance a caller makes one after the other
MaxCalls == 3

\* processFile invocations that may be in flight together
MaxUploads == 2

---------------------------------------------------------------------------
(* Values *)

null == [null |-> TRUE]

\* optional arguments: <<>> is "not supplied", <<v>> is the value v
None == <<>>
Some(v) == <<v>>

\* whole litres to volume units
Litres(x) == x * 100

MathMax(a, b) == IF a >= b THEN a ELSE b
MathMin(a, b) == IF a <= b THEN a ELSE b

\* a ratio num/den with den > 0
Percent(a, b) == [num |-> a * 100, den |-> b]
RatEq(p, q) == p.num * q.den = q.num * p.den
Whole(n) == [num |-> n, den |-> 1]

Abs(x) == IF x < 0 THEN 0 - x ELSE x

RECURSIVE GCD(_, _)
GCD(a, b) == IF b = 0 THEN a ELSE GCD(b, a % b)

\* The quotient n / d of JavaScript numbers, in lowest terms with den >= 0.
\* den = 0 stands for the values a division by zero produces: Infinity
\* (num = 1), -Infinity (num = -1) and NaN (num = 0).
Ratio(n, d) ==
    LET g == GCD(Abs(n), Abs(d))
    IN  IF g = 0 THEN [num |-> 0, den |-> 0]
        ELSE IF d < 0 THEN [num |-> 0 - (n \div g), den |-> 0 - (d \div g)]
        ELSE [num |-> n \div g, den |-> d \div g]

Infinity == [num |-> 1, den |-> 0]

IsNaN(p) == p.num = 0 /\ p.den = 0

\* p - q of two finite ratios
RatSub(p, q) ==
    LET g == GCD(p.den, q.den)
    IN  Ratio(p.num * (q.den \div g) - q.num * (p.den \div g), (p.den \div g) * q.den)

\* p * q of two finite ratios
RatMul(p, q) ==
    LET g1 == MathMax(1, GCD(Abs(p.num), q.den))
        g2 == MathMax(1, GCD(Abs(q.num), p.den))
    IN  Ratio((p.num \div g1) * (q.num \div g2), (p.den \div g2) * (q.den \div g1))

\* p / q, with IEEE results for a zero, infinite or NaN operand (a zero
\* divisor counts as +0)
RatDiv(p, q) ==
    LET g1 == MathMax(1, GCD(Abs(p.num), Abs(q.num)))
        g2 == MathMax(1, GCD(p.den, q.den))
        n == (p.num \div g1) * (q.den \div g2)
        d == (p.den \div g2) * (q.num \div g1)
    IN  IF q.num < 0 THEN Ratio(0 - n, 0 - d) ELSE Ratio(n, d)

\* p < q for a finite q: false for NaN and Infinity, true for -Infinity
LessThan(p, q) ==
    IF p.den = 0 THEN p.num < 0 ELSE p.num * q.den < q.num * p.den

\* Date.prototype.getFullYear on a date held as a day number
getFullYear(date) == date \div YearLength

---------------------------------------------------------------------------
(* js/utils.js *)

\* a clamp with the two bounds applied in the wrong order
clampSwapped(value, min, max) == MathMax(MathMin(value, min), max)

\* a clamp that keeps the excess over the upper bound as the value
clampWrap(value, min, max) == IF value > max THEN value - max ELSE MathMax(value, min)

\* a clamp that forgets the upper bound
clampNoUpper(value, min, max) == MathMax(value, min)

clamp(value, min, max) == MathMin(MathMax(value, min), max)

---------------------------------------------------------------------------
(* js/water-balance.js *)

DEFAULTS ==
    [ roofArea_m2 |-> 180,
      dailyUsage_L |-> 500,
      runoffCoefficient |-> 85,      \* percent
      waterRate_perKL |-> 350,       \* cents
      securityConfidence |-> 950,    \* per-mille
      stressThreshold |-> 20 ]       \* percent of tank capacity

TANK_SIZES == <<2000, 5000, 10000, 15000, 20000, 25000>>

THRESHOLD_MM_PER_DAY == 2

\* the destructuring of config with its defaults (lines 43-50)
Destructure(cfg) ==
    [ rainfallData |-> cfg.rainfallData,
      tankSize_L |-> cfg.tankSize_L,
      roofArea_m2 |-> cfg.roofArea_m2,
      dailyUsage_L |-> cfg.dailyUsage_L,
      runoffCoefficient |->
          IF cfg.runoffCoefficient = None THEN DEFAULTS.runoffCoefficient
          ELSE cfg.runoffCoefficient[1],
      initialLevel |->
          IF cfg.initialLevel_L = None THEN cfg.tankSize_L * 50
          ELSE Litres(cfg.initialLevel_L[1]) ]

\* !rainfallData || rainfallData.length === 0 (line 52)
NoRainfallData(cfg) ==
    IF cfg.rainfallData = None THEN TRUE ELSE Len(cfg.rainfallData[1]) = 0

\* a check that lets zero through
NotPositiveStrict(cfg) ==
    \/ cfg.tankSize_L < 0
    \/ cfg.roofArea_m2 < 0
    \/ cfg.dailyUsage_L < 0

\* line 56
NotPositive(cfg) ==
    \/ cfg.tankSize_L <= 0
    \/ cfg.roofArea_m2 <= 0
    \/ cfg.dailyUsage_L <= 0

\* the locals before the loop (lines 60-77)
Locals(c) ==
    [ stressThreshold_L |-> c.tankSize_L * DEFAULTS.stressThreshold,
      dailyLevels |-> <<>>,
      currentLevel |-> clamp(c.initialLevel, 0, Litres(c.tankSize_L)),
      totalOverflow_L |-> 0,
      totalDeficit_L |-> 0,
      daysEmpty |-> 0,
      daysBelowStress |-> 0,
      daysBelow50pct |-> 0,
      emptyPeriods |-> <<>>,
      stressPeriods |-> <<>>,
      currentEmptyPeriod |-> null,
      currentStressPeriod |-> null ]

\* inflow of one day: 1 mm on 1 m2 = 1 litre (lines 82-84)
Inflow(dayData, c) ==
    IF dayData.missing THEN 0
    ELSE dayData.rainfall_mm * c.roofArea_m2 * c.runoffCoefficient

\* overflow that forgets to subtract the capacity
OverflowNoCapacity(rawNewLevel, c) == MathMax(0, rawNewLevel)

\* overflow and deficit of one day (lines 90-91)
Overflow(rawNewLevel, c) == MathMax(0, rawNewLevel - Litres(c.tankSize_L))

\* a deficit that is never recorded
DeficitDropped(rawNewLevel) == 0

Deficit(rawNewLevel) == MathMax(0, 0 - rawNewLevel)

\* empty-period tracking that drops a period when it ends instead of storing it
TrackEmptyDropLast(s, dayData, isEmpty) ==
    IF isEmpty THEN
        [ s EXCEPT
            !.daysEmpty = @ + 1,
            !.currentEmptyPeriod =
                IF s.currentEmptyPeriod = null
                THEN [ startDate |-> dayData.date, endDate |-> dayData.date,
                       duration |-> 1, year |-> getFullYear(dayData.date) ]
                ELSE [ s.currentEmptyPeriod EXCEPT
                         !.endDate = dayData.date, !.duration = @ + 1 ] ]
    ELSE IF s.currentEmptyPeriod # null THEN
        [ s EXCEPT !.currentEmptyPeriod = null ]
    ELSE s

\* empty-period tracking (lines 101-119)
TrackEmpty(s, dayData, isEmpty) ==
    IF isEmpty THEN
        [ s EXCEPT
            !.daysEmpty = @ + 1,
            !.currentEmptyPeriod =
                IF s.currentEmptyPeriod = null
                THEN [ startDate |-> dayData.date, endDate |-> dayData.date,
                       duration |-> 1, year |-> getFullYear(dayData.date) ]
                ELSE [ s.currentEmptyPeriod EXCEPT
                         !.endDate = dayData.date, !.duration = @ + 1 ] ]
    ELSE IF s.currentEmptyPeriod # null THEN
        [ s EXCEPT
            !.emptyPeriods = Append(@, s.currentEmptyPeriod),
            !.currentEmptyPeriod = null ]
    ELSE s

\* stress-period tracking that keeps the level of the first day as minLevel
TrackStressFirstLevel(s, dayData, newLevel, isStressed) ==
    IF isStressed THEN
        [ s EXCEPT
            !.daysBelowStress = @ + 1,
            !.currentStressPeriod =
                IF s.currentStressPeriod = null
                THEN [ startDate |-> dayData.date, endDate |-> dayData.date,
                       minLevel |-> newLevel, year |-> getFullYear(dayData.date) ]
                ELSE [ s.currentStressPeriod EXCEPT !.endDate = dayData.date ] ]
    ELSE IF s.currentStressPeriod # null THEN
        [ s EXCEPT
            !.stressPeriods = Append(@, s.currentStressPeriod),
            !.currentStressPeriod = null ]
    ELSE s

\* stress-period tracking that leaves endDate at the first day
TrackStressKeepEnd(s, dayData, newLevel, isStressed) ==
    IF isStressed THEN
        [ s EXCEPT
            !.daysBelowStress = @ + 1,
            !.currentStressPeriod =
                IF s.currentStressPeriod = null
                THEN [ startDate |-> dayData.date, endDate |-> dayData.date,
                       minLevel |-> newLevel, year |-> getFullYear(dayData.date) ]
                ELSE [ s.currentStressPeriod EXCEPT
                         !.minLevel = MathMin(@, newLevel) ] ]
    ELSE IF s.currentStressPeriod # null THEN
        [ s EXCEPT
            !.stressPeriods = Append(@, s.currentStressPeriod),
            !.currentStressPeriod = null ]
    ELSE s

\* stress-period tracking (lines 122-140)
TrackStress(s, dayData, newLevel, isStressed) ==
    IF isStressed THEN
        [ s EXCEPT
            !.daysBelowStress = @ + 1,
            !.currentStressPeriod =
                IF s.currentStressPeriod = null
                THEN [ startDate |-> dayData.date, endDate |-> dayData.date,
                       minLevel |-> newLevel, year |-> getFullYear(dayData.date) ]
                ELSE [ s.currentStressPeriod EXCEPT
                         !.endDate = dayData.date,
                         !.minLevel = MathMin(@, newLevel) ] ]
    ELSE IF s.currentStressPeriod # null THEN
        [ s EXCEPT
            !.stressPeriods = Append(@, s.currentStressPeriod),
            !.currentStressPeriod = null ]
    ELSE s

\* one iteration of the loop over rainfallData (lines 80-160)
ProcessDay(s, dayData, c) ==
    LET inflow_L == Inflow(dayData, c)
        rawNewLevel == s.currentLevel + inflow_L - Litres(c.dailyUsage_L)
        overflow_L == Overflow(rawNewLevel, c)
        deficit_L == Deficit(rawNewLevel)
        newLevel == clamp(rawNewLevel, 0, Litres(c.tankSize_L))
        isEmpty == newLevel = 0
        isStressed == newLevel < s.stressThreshold_L
        s1 == [ s EXCEPT !.totalOverflow_L = @ + overflow_L,
                         !.totalDeficit_L = @ + deficit_L ]
        s2 == TrackEmpty(s1, dayData, isEmpty)
        s3 == TrackStress(s2, dayData, newLevel, isStressed)
    IN  [ s3 EXCEPT
            !.daysBelow50pct = IF newLevel < c.tankSize_L * 50 THEN @ + 1 ELSE @,
            !.dailyLevels = Append(@,
                [ date |-> dayData.date,
                  level_L |-> newLevel,
                  inflow_L |-> inflow_L,
                  usage_L |-> Litres(c.dailyUsage_L),
                  overflow_L |-> overflow_L,
                  deficit_L |-> deficit_L,
                  isEmpty |-> isEmpty,
                  isStressed |-> isStressed ]),
            !.currentLevel = newLevel ]

\* an end of data that forgets the periods still open
CloseOpenPeriodsForgotten(s) == s

\* closing the periods still open at the end of the data (lines 162-168)
CloseOpenPeriods(s) ==
    [ s EXCEPT
        !.emptyPeriods =
            IF s.currentEmptyPeriod # null THEN Append(@, s.currentEmptyPeriod) ELSE @,
        !.stressPeriods =
            IF s.currentStressPeriod # null THEN Append(@, s.currentStressPeriod) ELSE @ ]

\* findWorstDrySpell (lines 201-257): the state after day i of the scan
RECURSIVE SpellScan(_, _)
SpellScan(rainfallData, i) ==
    IF i = 0 THEN [ worstSpell |-> null, currentSpell |-> null ]
    ELSE
        LET w == SpellScan(rainfallData, i - 1)
            dayData == rainfallData[i]
            rainfall == IF dayData.missing THEN 0 ELSE dayData.rainfall_mm
            fresh == [ startDate |-> dayData.date, endDate |-> dayData.date,
                       totalRainfall |-> rainfall, duration |-> 1 ]
        IN  IF w.currentSpell = null THEN [ w EXCEPT !.currentSpell = fresh ]
            ELSE
                LET newTotal == w.currentSpell.totalRainfall + rainfall
                    newDuration == w.currentSpell.duration + 1
                IN  IF newTotal < THRESHOLD_MM_PER_DAY * newDuration
                    THEN [ w EXCEPT !.currentSpell =
                             [ @ EXCEPT !.endDate = dayData.date,
                                        !.totalRainfall = newTotal,
                                        !.duration = newDuration ] ]
                    ELSE [ worstSpell |->
                               IF \/ w.worstSpell = null
                                  \/ w.currentSpell.duration > w.worstSpell.duration
                               THEN w.currentSpell ELSE w.worstSpell,
                           currentSpell |-> fresh ]

\* a detector that leaves out the spell still open at the end of the data
findWorstDrySpellClosedOnly(rainfallData, roofArea_m2, runoffCoefficient) ==
    LET w == SpellScan(rainfallData, Len(rainfallData))
    IN  IF w.worstSpell # null THEN w.worstSpell
        ELSE [ startDate |-> rainfallData[1].date, endDate |-> rainfallData[1].date,
               totalRainfall |-> 0, duration |-> 0 ]

\* a worst spell that reports the rain of the spell as the volume the roof
\* captures from it
findWorstDrySpellOfCapture(rainfallData, roofArea_m2, runoffCoefficient) ==
    LET w == SpellScan(rainfallData, Len(rainfallData))
        worstSpell ==
            IF /\ w.currentSpell # null
               /\ \/ w.worstSpell = null
                  \/ w.currentSpell.duration > w.worstSpell.duration
            THEN w.currentSpell ELSE w.worstSpell
    IN  IF worstSpell # null
        THEN [ worstSpell EXCEPT !.totalRainfall = @ * roofArea_m2 * runoffCoefficient ]
        ELSE [ startDate |-> rainfallData[1].date, endDate |-> rainfallData[1].date,
               totalRainfall |-> 0, duration |-> 0 ]

findWorstDrySpell(rainfallData, roofArea_m2, runoffCoefficient) ==
    LET w == SpellScan(rainfallData, Len(rainfallData))
        worstSpell ==
            IF /\ w.currentSpell # null
               /\ \/ w.worstSpell = null
                  \/ w.currentSpell.duration > w.worstSpell.duration
            THEN w.currentSpell ELSE w.worstSpell
    IN  IF worstSpell # null THEN worstSpell
        ELSE [ startDate |-> rainfallData[1].date, endDate |-> rainfallData[1].date,
               totalRainfall |-> 0, duration |-> 0 ]

\* the share of empty days instead of the share of days with water
ReliabilityPercentOfEmpty(totalDays, daysEmpty) == Percent(daysEmpty, totalDays)

\* summary.reliabilityPercent (line 182)
ReliabilityPercent(totalDays, daysEmpty) == Percent(totalDays - daysEmpty, totalDays)

\* the returned object (lines 162-188)
Return(s0, c) ==
    LET s == CloseOpenPeriods(s0)
        totalDays == Len(s.dailyLevels)
    IN  [ dailyLevels |-> s.dailyLevels,
          summary |->
            [ totalDays |-> totalDays,
              daysEmpty |-> s.daysEmpty,
              daysBelowStress |-> s.daysBelowStress,
              daysBelow50pct |-> s.daysBelow50pct,
              totalOverflow_L |-> s.totalOverflow_L,
              totalDeficit_L |-> s.totalDeficit_L,
              reliabilityPercent |-> ReliabilityPercent(totalDays, s.daysEmpty),
              stressPercent |-> Percent(s.daysBelowStress, totalDays) ],
          emptyPeriods |-> s.emptyPeriods,
          stressPeriods |-> s.stressPeriods,
          worstDrySpell |->
            findWorstDrySpell(c.rainfallData[1], c.roofArea_m2, c.runoffCoefficient) ]

\* the locals after the first i days
RECURSIVE Simulate(_, _)
Simulate(c, i) ==
    IF i = 0 THEN Locals(c)
    ELSE ProcessDay(Simulate(c, i - 1), c.rainfallData[1][i], c)

Threw(message) == [ threw |-> TRUE, message |-> message ]

\* a whole call: the returned object, or the error thrown
runWaterBalance(cfg) ==
    IF NoRainfallData(cfg) THEN Threw("No rainfall data provided")
    ELSE IF NotPositive(cfg)
    THEN Threw("Tank size, roof area, and daily usage must be positive")
    ELSE LET c == Destructure(cfg)
         IN  [ threw |-> FALSE,
               value |-> Return(Simulate(c, Len(c.rainfallData[1])), c) ]

\* the running totals of calculateRoofPotential after the first i days
\* (lines 289-297)
RECURSIVE CaptureScan(_, _, _, _)
CaptureScan(rainfallData, roofArea_m2, runoffCoefficient, i) ==
    IF i = 0 THEN [ totalCapture_L |-> 0, validDays |-> 0 ]
    ELSE LET t == CaptureScan(rainfallData, roofArea_m2, runoffCoefficient, i - 1)
             day == rainfallData[i]
         IN  IF ~day.missing
             THEN [ totalCapture_L |-> t.totalCapture_L
                        + day.rainfall_mm * roofArea_m2 * runoffCoefficient,
                    validDays |-> t.validDays + 1 ]
             ELSE t

\* rainfallData.length / 365.25
YearsOf(totalDays) == Ratio(totalDays * 4, 1461)

calculateRoofPotential(rainfallData, roofArea_m2, runoffCoefficient) ==
    LET k == IF runoffCoefficient = None THEN DEFAULTS.runoffCoefficient
             ELSE runoffCoefficient[1]
        t == CaptureScan(rainfallData, roofArea_m2, k, Len(rainfallData))
        years == YearsOf(Len(rainfallData))
    IN  [ totalCapture_L |-> t.totalCapture_L,
          annualCapture_L |-> RatDiv(Whole(t.totalCapture_L), years),
          dailyAverage_L |-> Ratio(t.totalCapture_L, t.validDays),
          years |-> years ]

---------------------------------------------------------------------------
(* js/security-mode.js *)

SEARCH_MIN == 1000
SEARCH_MAX == 100000
SEARCH_STEP == 500

\* Math.round and Math.ceil of the quotient num / den, den > 0
MathRound(num, den) == (2 * num + den) \div (2 * den)
MathCeil(num, den) == 0 - ((0 - num) \div den)

\* the simulator argument { rainfallData, tankSize_L, ...baseConfig }
SimConfig(rainfallData, tankSize_L, baseConfig) ==
    [ rainfallData |-> rainfallData,
      tankSize_L |-> tankSize_L,
      roofArea_m2 |-> baseConfig.roofArea_m2,
      dailyUsage_L |-> baseConfig.dailyUsage_L,
      runoffCoefficient |-> None,
      initialLevel_L |-> None ]

\* a test at the largest size that also gives up on a reliability equal to the target
BelowOrAtTarget(reliabilityPercent, targetConfidence) ==
    reliabilityPercent.num * 10 <= targetConfidence * reliabilityPercent.den

\* reliabilityPercent / 100 < targetConfidence (line 101), target in per-mille
BelowTarget(reliabilityPercent, targetConfidence) ==
    reliabilityPercent.num * 10 < targetConfidence * reliabilityPercent.den

\* a comparison that rejects a reliability equal to the target
MeetsTargetStrict(reliabilityPercent, targetConfidence) ==
    reliabilityPercent.num * 10 > targetConfidence * reliabilityPercent.den

\* reliability >= targetConfidence (lines 120-122)
MeetsTarget(reliabilityPercent, targetConfidence) ==
    reliabilityPercent.num * 10 >= targetConfidence * reliabilityPercent.den

\* the midpoint snapped to the grid (line 112)
Mid(low, high) == MathRound(low + high, 2 * SEARCH_STEP) * SEARCH_STEP

\* a practical size rounded down instead of up
PracticalSizeDown(bestSize) == (bestSize \div 1000) * 1000

\* the practical size: up to the next 1000 L (line 132)
PracticalSize(bestSize) == MathCeil(bestSize, 1000) * 1000

\* the locals of findMinimumTankForConfidence (lines 89-92)
SearchLocals ==
    [ low |-> SEARCH_MIN,
      high |-> SEARCH_MAX,
      bestSize |-> SEARCH_MAX,
      bestReliability |-> Whole(0) ]

\* an iteration that records every midpoint as the best size, met or not
SearchIterationRecordAlways(args, l) ==
    LET mid == Mid(l.low, l.high)
        run == runWaterBalance(SimConfig(args.rainfallData, mid, args.baseConfig))
        reliabilityPercent == run.value.summary.reliabilityPercent
    IN  IF MeetsTarget(reliabilityPercent, args.targetConfidence)
        THEN [ l EXCEPT !.bestSize = mid, !.high = mid - SEARCH_STEP ]
        ELSE [ l EXCEPT !.bestSize = mid, !.low = mid + SEARCH_STEP ]

\* a bracket that keeps the midpoint it has just tested
NarrowKeepMid(l, mid, reliabilityPercent, meets) ==
    IF meets
    THEN [ l EXCEPT !.bestSize = mid,
                    !.bestReliability =
                        [ num |-> reliabilityPercent.num,
                          den |-> reliabilityPercent.den * 100 ],
                    !.high = mid ]
    ELSE [ l EXCEPT !.low = mid ]

\* the branch taken on the answer of the simulation at mid (lines 120-128)
Narrow(l, mid, reliabilityPercent, meets) ==
    IF meets
    THEN [ l EXCEPT !.bestSize = mid,
                    !.bestReliability =
                        [ num |-> reliabilityPercent.num,
                          den |-> reliabilityPercent.den * 100 ],
                    !.high = mid - SEARCH_STEP ]
    ELSE [ l EXCEPT !.low = mid + SEARCH_STEP ]

\* one iteration of the binary search (lines 111-129)
SearchIteration(args, l) ==
    LET mid == Mid(l.low, l.high)
        run == runWaterBalance(SimConfig(args.rainfallData, mid, args.baseConfig))
        reliabilityPercent == run.value.summary.reliabilityPercent
    IN  Narrow(l, mid, reliabilityPercent,
               MeetsTarget(reliabilityPercent, args.targetConfidence))

\* a result that reports the reliability recorded in the loop
SearchResultRecorded(args, l) ==
    [ recommendedSize |-> PracticalSize(l.bestSize),
      achievedConfidence |-> Ratio(l.bestReliability.num * 100, l.bestReliability.den),
      exactMinimum |-> l.bestSize,
      reachedLimit |-> FALSE ]

\* the result once the bracket is empty (lines 131-146)
SearchResult(args, l) ==
    LET practicalSize == PracticalSize(l.bestSize)
        verifyResult ==
            runWaterBalance(SimConfig(args.rainfallData, practicalSize, args.baseConfig))
    IN  [ recommendedSize |-> practicalSize,
          achievedConfidence |-> verifyResult.value.summary.reliabilityPercent,
          exactMinimum |-> l.bestSize,
          reachedLimit |-> FALSE ]

\* the simulation at the largest size (lines 95-99)
MaxResult(args) ==
    runWaterBalance(SimConfig(args.rainfallData, SEARCH_MAX, args.baseConfig))

\* the result when even the largest size misses the target (lines 103-107)
LimitResult(maxResult) ==
    [ recommendedSize |-> SEARCH_MAX,
      achievedConfidence |-> maxResult.value.summary.reliabilityPercent,
      reachedLimit |-> TRUE ]

\* analyzeSmallterTanks

\* the four fractions of recommendedSize, in percent (lines 160-163)
SweepFractions == <<75, 50, 33, 25>>

\* the candidates before the filter, in the order written (lines 159-164)
Rounded(recommendedSize) ==
    [ k \in 1..Len(SweepFractions) |->
        MathRound(recommendedSize * SweepFractions[k], 100000) * 1000 ]

\* size => size >= 1000 (line 164)
AtLeastThousand(size) == size >= 1000

\* [...new Set(sizes)]: the first occurrence of every value, in order
RECURSIVE Unique(_, _)
Unique(sizes, n) ==
    IF n = 0 THEN <<>>
    ELSE LET before == Unique(sizes, n - 1)
         IN  IF \E k \in 1..(n - 1) : sizes[k] = sizes[n] THEN before
             ELSE Append(before, sizes[n])

\* the sequence without its element at position k
Without(sizes, k) ==
    [ j \in 1..(Len(sizes) - 1) |-> IF j < k THEN sizes[j] ELSE sizes[j + 1] ]

\* sort((a, b) => b - a)
RECURSIVE SortDescending(_)
SortDescending(sizes) ==
    IF Len(sizes) = 0 THEN <<>>
    ELSE LET k == CHOOSE i \in 1..Len(sizes) :
                      /\ \A j \in 1..Len(sizes) : sizes[j] <= sizes[i]
                      /\ \A j \in 1..(i - 1) : sizes[j] < sizes[i]
         IN  <<sizes[k]>> \o SortDescending(Without(sizes, k))

\* uniqueSizes (lines 159-167)
UniqueSizes(recommendedSize) ==
    LET sizesToTest == SelectSeq(Rounded(recommendedSize), AtLeastThousand)
    IN  SortDescending(Unique(sizesToTest, Len(sizesToTest)))

\* Array.from(groupBy(periods, p => p.year).keys()).sort(): the years of the
\* periods, each once, ascending
RECURSIVE YearsOfPeriods(_, _)
YearsOfPeriods(periods, n) ==
    IF n = 0 THEN <<>>
    ELSE LET before == YearsOfPeriods(periods, n - 1)
             year == periods[n].year
         IN  IF \E k \in 1..Len(before) : before[k] = year THEN before
             ELSE SelectSeq(before, LAMBDA y : y < year) \o <<year>>
                     \o SelectSeq(before, LAMBDA y : y > year)

\* generateFailureDescription (lines 197-223): what the text says, by case
generateFailureDescription(emptyPeriods) ==
    IF Len(emptyPeriods) = 0 THEN [ text |-> "Never ran empty" ]
    ELSE IF Len(emptyPeriods) = 1
    THEN [ text |-> "Empty once",
           startDate |-> emptyPeriods[1].startDate,
           duration |-> emptyPeriods[1].duration ]
    ELSE IF Len(emptyPeriods) <= 4
    THEN [ text |-> "Empty times",
           count |-> Len(emptyPeriods),
           events |-> [ k \in 1..Len(emptyPeriods) |->
                          [ startDate |-> emptyPeriods[k].startDate,
                            duration |-> emptyPeriods[k].duration ] ] ]
    ELSE [ text |-> "Empty times across years",
           count |-> Len(emptyPeriods),
           years |-> YearsOfPeriods(emptyPeriods, Len(emptyPeriods)) ]

\* the entry of one smaller size, from its simulation result (lines 176-188)
SweepEntry(simResult, size) ==
    [ tankSize_L |-> size,
      totalFailures |-> Len(simResult.emptyPeriods),
      daysEmpty |-> simResult.summary.daysEmpty,
      yearsWithFailures |->
          YearsOfPeriods(simResult.emptyPeriods, Len(simResult.emptyPeriods)),
      failureEvents |-> simResult.emptyPeriods,
      description |-> generateFailureDescription(simResult.emptyPeriods) ]

\* analyzeOpportunisticMode.  waterRate_perKL is held in cents per kilolitre,
\* so money is in hundredths of a cent wherever a volume in hundredths of a
\* litre is multiplied by the rate.

\* the locals set before the candidates are simulated (lines 311-324)
OppLocals(rainfallData, params) ==
    [ tankSizesToCompare |->
          IF params.tankSizesToCompare = None THEN TANK_SIZES
          ELSE params.tankSizesToCompare[1],
      roofPotential |-> calculateRoofPotential(rainfallData, params.roofArea_m2, None),
      totalDays |-> Len(rainfallData),
      totalDemand_L |-> Litres(params.dailyUsage_L) * Len(rainfallData),
      years |-> YearsOf(Len(rainfallData)) ]

\* a share of the potential capture computed without looking at the total
CaptureShareUnguarded(part_L, totalCapture) == Ratio(part_L * 100, totalCapture)

\* totalCapture > 0 ? (part / totalCapture) * 100 : 0 (lines 351-358)
CaptureShare(part_L, totalCapture) ==
    IF totalCapture > 0 THEN Ratio(part_L * 100, totalCapture) ELSE Whole(0)

\* the share of the demand that is left to the mains
PercentOffsetOfMains(rainwaterUsed_L, totalDemand_L) ==
    Ratio((totalDemand_L - rainwaterUsed_L) * 100, totalDemand_L)

\* (rainwaterUsed_L / totalDemand_L) * 100 (line 341)
PercentOffset(rainwaterUsed_L, totalDemand_L) ==
    Ratio(rainwaterUsed_L * 100, totalDemand_L)

\* the simulator call of one candidate (lines 328-333)
CandidateRun(rainfallData, params, tankSize_L) ==
    runWaterBalance([ rainfallData |-> Some(rainfallData),
                      tankSize_L |-> tankSize_L,
                      roofArea_m2 |-> params.roofArea_m2,
                      dailyUsage_L |-> params.dailyUsage_L,
                      runoffCoefficient |-> None,
                      initialLevel_L |-> None ])

\* the entry of one candidate, from its simulation result (lines 335-372)
Comparison(simResult, tankSize_L, params, l) ==
    LET totalDeficit_L == simResult.summary.totalDeficit_L
        rainwaterUsed_L == l.totalDemand_L - totalDeficit_L
        mainsWaterNeeded_L == totalDeficit_L
        annualRainwaterUsed_L == RatDiv(Whole(rainwaterUsed_L), l.years)
        totalCapture == l.roofPotential.totalCapture_L
        overflow_L == simResult.summary.totalOverflow_L
    IN  [ tankSize_L |-> tankSize_L,
          rainwaterUsed_L |-> rainwaterUsed_L,
          mainsWaterNeeded_L |-> mainsWaterNeeded_L,
          percentOffset |-> PercentOffset(rainwaterUsed_L, l.totalDemand_L),
          annualRainwaterUsed_L |-> annualRainwaterUsed_L,
          annualMainsNeeded_L |-> RatDiv(Whole(mainsWaterNeeded_L), l.years),
          annualSavings |->
              RatMul(RatDiv(annualRainwaterUsed_L, Whole(1000)),
                     Whole(params.waterRate_perKL)),
          overflow_L |-> overflow_L,
          overflowPercent |-> CaptureShare(overflow_L, totalCapture),
          captureEfficiency |-> CaptureShare(totalCapture - overflow_L, totalCapture),
          daysEmpty |-> simResult.summary.daysEmpty ]

EFFICIENCY_THRESHOLD == 2
EFFICIENCY_DROP_RATIO == [num |-> 1, den |-> 2]

\* the marginal benefit of the step from candidate i to candidate i + 1
\* (lines 421-439)
MarginalBenefits(comparisons) ==
    [ i \in 1..(Len(comparisons) - 1) |->
        LET prev == comparisons[i]
            curr == comparisons[i + 1]
            sizeIncrease == curr.tankSize_L - prev.tankSize_L
            offsetIncrease == RatSub(curr.percentOffset, prev.percentOffset)
        IN  [ fromSize |-> prev.tankSize_L,
              toSize |-> curr.tankSize_L,
              offsetIncrease |-> offsetIncrease,
              savingsIncrease |-> RatSub(curr.annualSavings, prev.annualSavings),
              marginalEfficiency |->
                  RatDiv(offsetIncrease, Ratio(sizeIncrease, 1000)) ] ]

\* a walk that stops on the floor alone
BestIndexFromFloorOnly(marginalBenefits, i, bestIndex) ==
    LET RECURSIVE Walk(_, _)
        Walk(j, best) ==
            IF j >= Len(marginalBenefits) THEN best
            ELSE IF LessThan(marginalBenefits[j + 1].marginalEfficiency,
                             Whole(EFFICIENCY_THRESHOLD))
                 THEN best
                 ELSE Walk(j + 1, j + 1)
    IN  Walk(i, bestIndex)

\* the loop of lines 446-462 from the zero-based step i on: the final bestIndex
RECURSIVE BestIndexFrom(_, _, _)
BestIndexFrom(marginalBenefits, i, bestIndex) ==
    IF i >= Len(marginalBenefits) THEN bestIndex
    ELSE LET benefit == marginalBenefits[i + 1]
             previousEfficiency ==
                 IF i > 0 THEN marginalBenefits[i].marginalEfficiency ELSE Infinity
             efficiencyDrop == RatDiv(benefit.marginalEfficiency, previousEfficiency)
         IN  IF LessThan(benefit.marginalEfficiency, Whole(EFFICIENCY_THRESHOLD))
             THEN bestIndex
             ELSE IF i > 0 /\ LessThan(efficiencyDrop, EFFICIENCY_DROP_RATIO)
             THEN bestIndex
             ELSE BestIndexFrom(marginalBenefits, i + 1, i + 1)

findBestValueTank(comparisons) ==
    IF Len(comparisons) = 0 THEN null
    ELSE IF Len(comparisons) = 1 THEN comparisons[1]
    ELSE LET bestIndex == BestIndexFrom(MarginalBenefits(comparisons), 0, 0)
         IN  comparisons[MathMin(bestIndex, Len(comparisons) - 1) + 1]

\* the returned object (lines 376-397); bestValueIndex is zero-based
OppResult(comparisons, params, l) ==
    LET bestValue == findBestValueTank(comparisons)
        annualDemand_kL == Ratio(params.dailyUsage_L * 1461, 4000)
        annual_kL == RatDiv(l.roofPotential.annualCapture_L, Whole(1000))
    IN  [ comparisons |-> comparisons,
          bestValueSize |-> bestValue.tankSize_L,
          bestValueIndex |->
              CHOOSE i \in 0..(Len(comparisons) - 1) :
                  /\ comparisons[i + 1].tankSize_L = bestValue.tankSize_L
                  /\ \A j \in 0..(i - 1) :
                         comparisons[j + 1].tankSize_L # bestValue.tankSize_L,
          roofPotential |->
              [ annual_L |-> l.roofPotential.annualCapture_L,
                annual_kL |-> annual_kL,
                annualValue |-> RatMul(annual_kL, Whole(params.waterRate_perKL)),
                total_L |-> l.roofPotential.totalCapture_L ],
          waterCost |->
              [ annualDemand_kL |-> annualDemand_kL,
                annualCost |-> RatMul(annualDemand_kL, Whole(params.waterRate_perKL)),
                ratePerKL |-> params.waterRate_perKL ] ]

\* the TypeError of bestValue.tankSize_L when findBestValueTank returned null
\* (line 384)
NoBestValue == Threw("TypeError: bestValue is null")

\* tankSizesToCompare.map over the first n candidates: the entries, or the
\* error of the first simulator call that throws
RECURSIVE MapCandidates(_, _, _, _)
MapCandidates(rainfallData, params, l, n) ==
    IF n = 0 THEN [ threw |-> FALSE, value |-> <<>> ]
    ELSE LET before == MapCandidates(rainfallData, params, l, n - 1)
             tankSize_L == l.tankSizesToCompare[n]
             run == CandidateRun(rainfallData, params, tankSize_L)
         IN  IF before.threw THEN before
             ELSE IF run.threw THEN run
             ELSE [ threw |-> FALSE,
                    value |-> Append(before.value,
                                     Comparison(run.value, tankSize_L, params, l)) ]

\* a whole call: the returned object, or the error thrown
analyzeOpportunisticMode(rainfallData, params) ==
    LET l == OppLocals(rainfallData, params)
        comparisons == MapCandidates(rainfallData, params, l, Len(l.tankSizesToCompare))
    IN  IF comparisons.threw THEN comparisons
        ELSE IF findBestValueTank(comparisons.value) = null THEN NoBestValue
        ELSE [ threw |-> FALSE, value |-> OppResult(comparisons.value, params, l) ]

---------------------------------------------------------------------------
(* js/visualizations/dry-spell-chart.js *)

\* threshold_mm = 1.0 by default (line 16)
ThresholdOf(threshold_mm) == IF threshold_mm = None THEN 1 ELSE threshold_mm[1]

\* day.missing || day.rainfall_mm < threshold_mm (line 26)
IsDry(day, threshold_mm) ==
    IF day.missing THEN TRUE ELSE day.rainfall_mm < ThresholdOf(threshold_mm)

\* the locals of the scan, with the number of days the loop has taken
\* (lines 21-22)
SpellLocals == [ drySpells |-> <<>>, currentSpell |-> null, taken |-> 0 ]

\* the body of the loop for one day (lines 26-44)
ScanDay(l, day, threshold_mm) ==
    LET m == [ l EXCEPT !.taken = @ + 1 ]
    IN  IF IsDry(day, threshold_mm)
        THEN IF l.currentSpell = null
             THEN [ m EXCEPT !.currentSpell =
                      [ startDate |-> day.date, endDate |-> day.date, duration |-> 1 ] ]
             ELSE [ m EXCEPT !.currentSpell =
                      [ @ EXCEPT !.endDate = day.date, !.duration = @ + 1 ] ]
        ELSE IF l.currentSpell # null
             THEN [ m EXCEPT !.drySpells = Append(@, l.currentSpell),
                             !.currentSpell = null ]
             ELSE m

\* the spell open at the end of the data is closed (lines 48-50)
CloseSpell(l) ==
    IF l.currentSpell # null THEN Append(l.drySpells, l.currentSpell) ELSE l.drySpells

\* the histogram bins, empty (lines 53-60); max <<>> is Infinity
EmptyBins ==
    << [ label |-> "1-3 days", min |-> 1, max |-> <<3>>, count |-> 0, spells |-> <<>> ],
       [ label |-> "4-7 days", min |-> 4, max |-> <<7>>, count |-> 0, spells |-> <<>> ],
       [ label |-> "8-14 days", min |-> 8, max |-> <<14>>, count |-> 0, spells |-> <<>> ],
       [ label |-> "15-30 days", min |-> 15, max |-> <<30>>, count |-> 0, spells |-> <<>> ],
       [ label |-> "31-60 days", min |-> 31, max |-> <<60>>, count |-> 0, spells |-> <<>> ],
       [ label |-> "60+ days", min |-> 61, max |-> <<>>, count |-> 0, spells |-> <<>> ] >>

\* a test that leaves the upper end of a bin out
InBinBelowMax(duration, bin) ==
    IF duration >= bin.min
    THEN IF bin.max = <<>> THEN TRUE ELSE duration < bin.max[1]
    ELSE FALSE

\* spell.duration >= bin.min && spell.duration <= bin.max (line 65)
InBin(duration, bin) ==
    IF duration >= bin.min
    THEN IF bin.max = <<>> THEN TRUE ELSE duration <= bin.max[1]
    ELSE FALSE

\* the bins after the first n spells have been categorized (lines 63-71)
RECURSIVE Categorize(_, _)
Categorize(drySpells, n) ==
    IF n = 0 THEN EmptyBins
    ELSE LET bins == Categorize(drySpells, n - 1)
             spell == drySpells[n]
             hits == { b \in 1..Len(bins) : InBin(spell.duration, bins[b]) }
         IN  IF hits = {} THEN bins
             ELSE LET first == CHOOSE b \in hits : \A c \in hits : b <= c
                  IN  [ bins EXCEPT ![first] =
                          [ @ EXCEPT !.count = @ + 1, !.spells = Append(@, spell) ] ]

\* drySpells.reduce from { duration: 0 }, a longer spell replacing the
\* longest so far (lines 74-77)
RECURSIVE Longest(_, _)
Longest(drySpells, n) ==
    IF n = 0 THEN [ duration |-> 0 ]
    ELSE LET longest == Longest(drySpells, n - 1)
         IN  IF drySpells[n].duration > longest.duration THEN drySpells[n] ELSE longest

RECURSIVE TotalDuration(_, _)
TotalDuration(drySpells, n) ==
    IF n = 0 THEN 0 ELSE TotalDuration(drySpells, n - 1) + drySpells[n].duration

\* the returned object (lines 48-96)
SpellsResult(l, rainfallData, threshold_mm) ==
    LET drySpells == CloseSpell(l)
        totalSpells == Len(drySpells)
        totalDryDays == TotalDuration(drySpells, Len(drySpells))
    IN  [ bins |-> Categorize(drySpells, Len(drySpells)),
          drySpells |-> drySpells,
          longestSpell |-> Longest(drySpells, Len(drySpells)),
          statistics |->
            [ totalSpells |-> totalSpells,
              totalDryDays |-> totalDryDays,
              avgSpellDuration |->
                  IF totalSpells > 0 THEN Ratio(totalDryDays, totalSpells) ELSE Whole(0),
              dryDayPercentage |-> Ratio(totalDryDays * 100, Len(rainfallData)),
              threshold_mm |-> ThresholdOf(threshold_mm) ] ]

---------------------------------------------------------------------------
(* js/app.js and the part of js/csv-parser.js it calls *)

\* parseBoMCSV: a text without data rows fails, any other text gives one
\* observation per row (csv-parser.js lines 14-40)
parseBoMCSV(csvText) ==
    IF Len(csvText.rows) = 0
    THEN [ success |-> FALSE, data |-> <<>>,
           metadata |-> [ station |-> null, totalDays |-> 0 ],
           errors |-> <<"File appears to be empty or has no data rows">> ]
    ELSE [ success |-> TRUE,
           data |-> [ k \in 1..Len(csvText.rows) |->
                        [ date |-> k, rainfall_mm |-> csvText.rows[k], missing |-> FALSE ] ],
           metadata |-> [ station |-> csvText.station, totalDays |-> Len(csvText.rows) ],
           errors |-> <<>> ]

\* generateDataSummary: the days of data and the station
\* (csv-parser.js lines 255-277)
generateDataSummary(parseResult) ==
    IF ~parseResult.success THEN <<"Unable to parse data">>
    ELSE <<parseResult.metadata.totalDays, "days of data", parseResult.metadata.station>>

\* const state (lines 159-171); a null rainfallData or mode is None, a set
\* one is Some(value)
InitialState ==
    [ currentStep |-> "upload",
      rainfallData |-> None,
      parseResult |-> null,
      mode |-> None,
      params |-> [ roofArea_m2 |-> DEFAULTS.roofArea_m2,
                   dailyUsage_L |-> DEFAULTS.dailyUsage_L,
                   confidenceLevel |-> DEFAULTS.securityConfidence,
                   waterRate_perKL |-> DEFAULTS.waterRate_perKL ],
      results |-> null ]

\* the elements the handlers read and write, as the page shows them when
\* it is loaded (lines 200-260; the values are those resetApp restores)
InitialElements ==
    [ uploadStatus |-> [ hidden |-> TRUE ],
      statusLoading |-> [ hidden |-> TRUE ],
      statusSuccess |-> [ hidden |-> TRUE ],
      statusError |-> [ hidden |-> TRUE ],
      dataSummary |-> [ textContent |-> <<>> ],
      errorMessage |-> [ textContent |-> <<>> ],
      btnToMode |-> [ disabled |-> TRUE ],
      btnToParams |-> [ disabled |-> TRUE ],
      roofArea |-> [ value |-> Some(DEFAULTS.roofArea_m2) ],
      dailyUsage |-> [ value |-> Some(DEFAULTS.dailyUsage_L) ],
      confidenceSlider |-> [ value |-> DEFAULTS.securityConfidence \div 10 ],
      confidenceValue |-> [ textContent |-> DEFAULTS.securityConfidence \div 10 ],
      waterRate |-> [ value |-> Some(DEFAULTS.waterRate_perKL) ] ]

\* showStep (lines 334-349)
showStep(a, stepName) == [ a EXCEPT !.state.currentStep = stepName ]

\* processFile up to its first await (lines 393-402)
ShowLoading(a) ==
    [ a EXCEPT !.elements.uploadStatus.hidden = FALSE,
               !.elements.statusLoading.hidden = FALSE,
               !.elements.statusSuccess.hidden = TRUE,
               !.elements.statusError.hidden = TRUE,
               !.elements.btnToMode.disabled = TRUE ]

\* the catch block of processFile (lines 426-430)
ShowError(a, message) ==
    [ a EXCEPT !.elements.statusLoading.hidden = TRUE,
               !.elements.statusError.hidden = FALSE,
               !.elements.errorMessage.textContent = message ]

\* processFile after its second await (lines 407-430)
Parsed(a, text) ==
    LET parsed == parseBoMCSV(text)
    IN  IF parsed.success
        THEN [ a EXCEPT !.state.parseResult = parsed,
                        !.state.rainfallData = Some(parsed.data),
                        !.elements.statusLoading.hidden = TRUE,
                        !.elements.statusSuccess.hidden = FALSE,
                        !.elements.dataSummary.textContent = generateDataSummary(parsed),
                        !.elements.btnToMode.disabled = FALSE ]
        ELSE ShowError(a, parsed.errors)

\* selectMode (lines 436-445)
selectMode(a, mode) ==
    [ a EXCEPT !.state.mode = Some(mode), !.elements.btnToParams.disabled = FALSE ]

\* parseFloat(value) || fallback: an empty, unreadable or zero input gives
\* the fallback (lines 461-463)
ParseFloatOr(value, fallback) ==
    IF value = None THEN fallback
    ELSE IF value[1] = 0 THEN fallback
    ELSE value[1]

\* updateParams (lines 460-464)
updateParams(a) ==
    [ a EXCEPT
        !.state.params.roofArea_m2 =
            ParseFloatOr(a.elements.roofArea.value, DEFAULTS.roofArea_m2),
        !.state.params.dailyUsage_L =
            ParseFloatOr(a.elements.dailyUsage.value, DEFAULTS.dailyUsage_L),
        !.state.params.waterRate_perKL =
            ParseFloatOr(a.elements.waterRate.value, DEFAULTS.waterRate_perKL) ]

\* updateConfidenceDisplay (lines 469-473); the slider is in percent, the
\* level in per-mille
updateConfidenceDisplay(a) ==
    [ a EXCEPT
        !.state.params.confidenceLevel = a.elements.confidenceSlider.value * 10,
        !.elements.confidenceValue.textContent = a.elements.confidenceSlider.value ]

\* selectUsagePreset (lines 478-486)
selectUsagePreset(a, usage) ==
    [ a EXCEPT !.elements.dailyUsage.value = Some(usage),
               !.state.params.dailyUsage_L = usage ]

\* runSecurityAnalysis and runOpportunisticAnalysis: the results are those of
\* the call made, kept as the call (lines 506-515 and 577-584)
runSecurityAnalysis(a) ==
    [ a EXCEPT !.state.results =
        [ analysis |-> "analyzeSecurityMode",
          rainfallData |-> a.state.rainfallData,
          options |-> [ roofArea_m2 |-> a.state.params.roofArea_m2,
                        dailyUsage_L |-> a.state.params.dailyUsage_L,
                        confidenceLevel |-> a.state.params.confidenceLevel ] ] ]

runOpportunisticAnalysis(a) ==
    [ a EXCEPT !.state.results =
        [ analysis |-> "analyzeOpportunisticMode",
          rainfallData |-> a.state.rainfallData,
          options |-> [ roofArea_m2 |-> a.state.params.roofArea_m2,
                        dailyUsage_L |-> a.state.params.dailyUsage_L,
                        waterRate_perKL |-> a.state.params.waterRate_perKL ] ] ]

\* runCalculation (lines 491-501)
runCalculation(a) ==
    LET b == updateParams(a)
    IN  showStep(IF b.state.mode = Some("security")
                 THEN runSecurityAnalysis(b)
                 ELSE runOpportunisticAnalysis(b),
                 "results")

\* resetApp (lines 800-843)
resetApp(a) ==
    showStep(
        [ a EXCEPT
            !.state.currentStep = "upload",
            !.state.rainfallData = None,
            !.state.parseResult = null,
            !.state.mode = None,
            !.state.results = null,
            !.elements.uploadStatus.hidden = TRUE,
            !.elements.btnToMode.disabled = TRUE,
            !.elements.btnToParams.disabled = TRUE,
            !.elements.roofArea.value = Some(DEFAULTS.roofArea_m2),
            !.elements.dailyUsage.value = Some(DEFAULTS.dailyUsage_L),
            !.elements.confidenceSlider.value = DEFAULTS.securityConfidence \div 10,
            !.elements.confidenceValue.textContent = DEFAULTS.securityConfidence \div 10,
            !.elements.waterRate.value = Some(DEFAULTS.waterRate_perKL) ],
        "upload")

---------------------------------------------------------------------------
(* Inputs *)

RainValues == {0, 1, 4}

Observation ==
    [ rainfall_mm : RainValues, missing : {FALSE} ]
        \cup { [ rainfall_mm |-> 0, missing |-> TRUE ] }

\* chronologically ordered series, one observation per date
SeriesOver(obs, n) ==
    { [ k \in 1..n |-> [ date |-> k,
                         rainfall_mm |-> f[k].rainfall_mm,
                         missing |-> f[k].missing ] ] : f \in [1..n -> obs] }

Series == UNION { SeriesOver(Observation, n) : n \in 0..MaxDays }

Configs ==
    [ rainfallData : {None} \cup { Some(d) : d \in Series },
      tankSize_L : {-100, 0, 100, 200},
      roofArea_m2 : {0, 100},
      dailyUsage_L : {0, 50, 120},
      runoffCoefficient : {None, Some(50)},
      initialLevel_L : {None, Some(-30), Some(60), Some(500)} ]

SearchArgs ==
    [ rainfallData : { Some(d) : d \in Series },
      baseConfig : [ roofArea_m2 : {0, 180}, dailyUsage_L : {500, 9000, 30000} ],
      targetConfidence : {-500, 0, 500, 950, 1000, 1500} ]

\* candidate lists a caller may pass: every arrangement of distinct sizes, in
\* any order, and lists that repeat a size
CandidateSizes == {2000, 5000, 10000}

CandidateLists ==
    { l \in UNION { [1..n -> CandidateSizes] : n \in 0..3 } :
        \A i, j \in DOMAIN l : i # j => l[i] # l[j] }
    \cup { <<2000, 2000>>, <<2000, 5000, 5000>> }

OppArgs ==
    [ rainfallData : Series,
      params : [ roofArea_m2 : {0, 180, 1000},
                 dailyUsage_L : {500, 3000},
                 waterRate_perKL : {350},
                 tankSizesToCompare : {None} \cup { Some(l) : l \in CandidateLists } ] ]

\* the base configuration and the sizes of a caller that simulates several
\* sizes on one series, as runMultipleSizes does
RepeatSizes == {100, 200}

RepeatConfigs ==
    [ rainfallData : {None} \cup { Some(d) : d \in Series },
      tankSize_L : RepeatSizes,
      roofArea_m2 : {0, 100},
      dailyUsage_L : {120},
      runoffCoefficient : {None},
      initialLevel_L : {None, Some(60)} ]

\* every size the search can return
RecommendedSizes == { 1000 * k : k \in 1..100 }

\* series of wet and dry days, none missing
SweepSeries ==
    { d \in Series : \A k \in DOMAIN d : ~d[k].missing /\ d[k].rainfall_mm # 1 }

SweepArgs ==
    [ rainfallData : { Some(d) : d \in SweepSeries },
      baseConfig : [ roofArea_m2 : {0, 180}, dailyUsage_L : {500, 9000} ],
      recommendedSize : RecommendedSizes ]

\* lengths of dry runs at both ends of every histogram bin
RunLengths == {1, 3, 4, 7, 8, 14, 15, 30, 31, 60, 61}

\* a series of lead wet days, run1 dry days, a wet day, run2 dry days and
\* trail wet days
Stretch(lead, run1, run2, trail) ==
    [ k \in 1..(lead + run1 + 1 + run2 + trail) |->
        [ date |-> k,
          rainfall_mm |->
              IF \/ k <= lead
                 \/ k = lead + run1 + 1
                 \/ k > lead + run1 + 1 + run2
              THEN 4 ELSE 0,
          missing |-> FALSE ] ]

LongSeries ==
    { Stretch(lead, run1, run2, trail) :
        lead \in {0, 1}, run1 \in RunLengths, run2 \in RunLengths \cup {0},
        trail \in {0, 1} }

SpellsArgs ==
    [ rainfallData : {None} \cup { Some(d) : d \in Series }, threshold_mm : {None, Some(0), Some(2)} ]
    \cup [ rainfallData : { Some(d) : d \in LongSeries }, threshold_mm : {None} ]

\* the files the user may choose: two rainfall tables and a file without
\* data rows
Files ==
    { [ name |-> "a.csv", text |-> [ station |-> "070014", rows |-> <<4>> ] ],
      [ name |-> "b.csv", text |-> [ station |-> "066062", rows |-> <<0, 1>> ] ],
      [ name |-> "notes.txt", text |-> [ station |-> null, rows |-> <<>> ] ] }

Modes == {"security", "opportunistic"}

\* what the user may type into the number inputs (empty or a number), pick
\* as a preset, and set the slider to
RoofAreaInputs == {None, Some(100)}
DailyUsageInputs == {Some(120)}
UsagePresets == {250}
WaterRateInputs == {Some(300)}
SliderValues == {90, 99}

---------------------------------------------------------------------------
(* One call of runWaterBalance, a day at a time *)

\* no histogram analysis and no page take part
PageAbsent ==
    /\ spells = null
    /\ app = null
    /\ tasks = <<>>

PageIdle == UNCHANGED <<spells, app, tasks>>

Init ==
    /\ config \in Configs
    /\ pc = "entry"
    /\ st = null
    /\ result = null
    /\ search = null
    /\ spc = "idle"
    /\ tankSizing = null
    /\ simRuns = <<>>
    /\ earlier = <<>>
    /\ PageAbsent
    /\ opp = null
    /\ sweep = null

SearchIdle == UNCHANGED <<search, spc, tankSizing, simRuns>>

AnalysesIdle == UNCHANGED <<opp, sweep>> /\ PageIdle

ThrowNoData ==
    /\ pc = "entry"
    /\ NoRainfallData(config)
    /\ pc' = "threw"
    /\ result' = Threw("No rainfall data provided")
    /\ UNCHANGED <<config, st>>
    /\ SearchIdle
    /\ AnalysesIdle
    /\ UNCHANGED earlier

ThrowNotPositive ==
    /\ pc = "entry"
    /\ ~NoRainfallData(config)
    /\ NotPositive(config)
    /\ pc' = "threw"
    /\ result' = Threw("Tank size, roof area, and daily usage must be positive")
    /\ UNCHANGED <<config, st>>
    /\ SearchIdle
    /\ AnalysesIdle
    /\ UNCHANGED earlier

\* a call whose tank starts from the level the previous call ended with
BeginFromLastLevel ==
    /\ pc = "entry"
    /\ ~NoRainfallData(config)
    /\ ~NotPositive(config)
    /\ st' = IF earlier # <<>> /\ ~earlier[Len(earlier)].result.threw
             THEN [ Locals(Destructure(config)) EXCEPT !.currentLevel =
                      LET last == earlier[Len(earlier)].result.value.dailyLevels
                      IN  last[Len(last)].level_L ]
             ELSE Locals(Destructure(config))
    /\ pc' = "loop"
    /\ UNCHANGED <<config, result>>
    /\ SearchIdle
    /\ AnalysesIdle
    /\ UNCHANGED earlier

Begin ==
    /\ pc = "entry"
    /\ ~NoRainfallData(config)
    /\ ~NotPositive(config)
    /\ st' = Locals(Destructure(config))
    /\ pc' = "loop"
    /\ UNCHANGED <<config, result>>
    /\ SearchIdle
    /\ AnalysesIdle
    /\ UNCHANGED earlier

Day ==
    /\ pc = "loop"
    /\ Len(st.dailyLevels) < Len(config.rainfallData[1])
    /\ st' = ProcessDay(st, config.rainfallData[1][Len(st.dailyLevels) + 1],
                        Destructure(config))
    /\ UNCHANGED <<config, pc, result>>
    /\ SearchIdle
    /\ AnalysesIdle
    /\ UNCHANGED earlier

Finish ==
    /\ pc = "loop"
    /\ Len(st.dailyLevels) = Len(config.rainfallData[1])
    /\ result' = [ threw |-> FALSE, value |-> Return(st, Destructure(config)) ]
    /\ st' = CloseOpenPeriods(st)
    /\ pc' = "returned"
    /\ UNCHANGED config
    /\ SearchIdle
    /\ AnalysesIdle
    /\ UNCHANGED earlier

Next == ThrowNoData \/ ThrowNotPositive \/ Begin \/ Day \/ Finish

Spec == Init /\ [][Next]_vars

---------------------------------------------------------------------------
(* Calls of runWaterBalance one after the other on the caller's series *)

InitRepeat ==
    /\ config \in RepeatConfigs
    /\ pc = "entry"
    /\ st = null
    /\ result = null
    /\ earlier = <<>>
    /\ PageAbsent
    /\ search = null
    /\ spc = "idle"
    /\ tankSizing = null
    /\ simRuns = <<>>
    /\ opp = null
    /\ sweep = null

\* the caller keeps the outcome and calls again with another size and the same
\* series and base configuration (runMultipleSizes, lines 269-275); the locals
\* of the finished call are gone
CallAgain ==
    /\ pc \in {"returned", "threw"}
    /\ Len(earlier) < MaxCalls - 1
    /\ earlier' = Append(earlier, [ config |-> config, result |-> result ])
    /\ \E size \in RepeatSizes : config' = [ config EXCEPT !.tankSize_L = size ]
    /\ pc' = "entry"
    /\ st' = null
    /\ result' = null
    /\ SearchIdle
    /\ AnalysesIdle

NextRepeat == ThrowNoData \/ ThrowNotPositive \/ Begin \/ Day \/ Finish \/ CallAgain

SpecRepeat == InitRepeat /\ [][NextRepeat]_vars

---------------------------------------------------------------------------
(* One call of findMinimumTankForConfidence, a simulator run at a time *)

InitSearch ==
    /\ search \in [ args : SearchArgs, locals : {SearchLocals} ]
    /\ spc = "entry"
    /\ tankSizing = null
    /\ config = null
    /\ pc = "idle"
    /\ st = null
    /\ result = null
    /\ simRuns = <<>>
    /\ earlier = <<>>
    /\ PageAbsent
    /\ opp = null
    /\ sweep = null

SimIdle == UNCHANGED <<config, pc, st, result, earlier>> /\ PageIdle

\* the first simulator run throws and the error leaves the search
SearchThrow ==
    /\ spc = "entry"
    /\ MaxResult(search.args).threw
    /\ tankSizing' = MaxResult(search.args)
    /\ spc' = "threw"
    /\ simRuns' = Append(simRuns, SEARCH_MAX)
    /\ UNCHANGED search
    /\ SimIdle
    /\ AnalysesIdle

SearchReachedLimit ==
    /\ spc = "entry"
    /\ ~MaxResult(search.args).threw
    /\ BelowTarget(MaxResult(search.args).value.summary.reliabilityPercent,
                   search.args.targetConfidence)
    /\ tankSizing' = [ threw |-> FALSE, value |-> LimitResult(MaxResult(search.args)) ]
    /\ spc' = "returned"
    /\ simRuns' = Append(simRuns, SEARCH_MAX)
    /\ UNCHANGED search
    /\ SimIdle
    /\ AnalysesIdle

SearchBegin ==
    /\ spc = "entry"
    /\ ~MaxResult(search.args).threw
    /\ ~BelowTarget(MaxResult(search.args).value.summary.reliabilityPercent,
                    search.args.targetConfidence)
    /\ spc' = "loop"
    /\ simRuns' = Append(simRuns, SEARCH_MAX)
    /\ UNCHANGED <<search, tankSizing>>
    /\ SimIdle
    /\ AnalysesIdle

SearchStep ==
    /\ spc = "loop"
    /\ search.locals.low <= search.locals.high
    /\ search' = [ search EXCEPT !.locals = SearchIteration(search.args, @) ]
    /\ simRuns' = Append(simRuns, Mid(search.locals.low, search.locals.high))
    /\ UNCHANGED <<spc, tankSizing>>
    /\ SimIdle
    /\ AnalysesIdle

SearchReturn ==
    /\ spc = "loop"
    /\ search.locals.low > search.locals.high
    /\ tankSizing' = [ threw |-> FALSE, value |-> SearchResult(search.args, search.locals) ]
    /\ spc' = "returned"
    /\ simRuns' = Append(simRuns, PracticalSize(search.locals.bestSize))
    /\ UNCHANGED search
    /\ SimIdle
    /\ AnalysesIdle

NextSearch ==
    SearchThrow \/ SearchReachedLimit \/ SearchBegin \/ SearchStep \/ SearchReturn

SpecSearch == InitSearch /\ [][NextSearch]_vars

---------------------------------------------------------------------------
(* One call of analyzeOpportunisticMode, a candidate at a time *)

InitOpp ==
    /\ opp \in [ args : OppArgs, pc : {"entry"}, locals : {null},
                 comparisons : {<<>>}, result : {null} ]
    /\ sweep = null
    /\ search = null
    /\ spc = "idle"
    /\ tankSizing = null
    /\ config = null
    /\ pc = "idle"
    /\ st = null
    /\ result = null
    /\ simRuns = <<>>
    /\ earlier = <<>>
    /\ PageAbsent

\* the candidate the map callback is about to be called with
NextCandidate == opp.locals.tankSizesToCompare[Len(opp.comparisons) + 1]

OppBegin ==
    /\ opp # null
    /\ opp.pc = "entry"
    /\ opp' = [ opp EXCEPT !.pc = "map",
                           !.locals = OppLocals(opp.args.rainfallData, opp.args.params) ]
    /\ UNCHANGED sweep
    /\ SimIdle
    /\ SearchIdle

\* the simulator rejects the call and the error leaves the analysis
OppThrow ==
    /\ opp # null
    /\ opp.pc = "map"
    /\ Len(opp.comparisons) < Len(opp.locals.tankSizesToCompare)
    /\ LET run == CandidateRun(opp.args.rainfallData, opp.args.params, NextCandidate)
       IN  /\ run.threw
           /\ opp' = [ opp EXCEPT !.pc = "threw", !.result = run ]
    /\ UNCHANGED sweep
    /\ SimIdle
    /\ SearchIdle

OppCompare ==
    /\ opp # null
    /\ opp.pc = "map"
    /\ Len(opp.comparisons) < Len(opp.locals.tankSizesToCompare)
    /\ LET run == CandidateRun(opp.args.rainfallData, opp.args.params, NextCandidate)
       IN  /\ ~run.threw
           /\ opp' = [ opp EXCEPT !.comparisons =
                         Append(@, Comparison(run.value, NextCandidate,
                                              opp.args.params, opp.locals)) ]
    /\ UNCHANGED sweep
    /\ SimIdle
    /\ SearchIdle

\* bestValue.tankSize_L on the null that an empty list of comparisons gives
OppNoBestValue ==
    /\ opp # null
    /\ opp.pc = "map"
    /\ Len(opp.comparisons) = Len(opp.locals.tankSizesToCompare)
    /\ findBestValueTank(opp.comparisons) = null
    /\ opp' = [ opp EXCEPT !.pc = "threw",
                           !.result = NoBestValue ]
    /\ UNCHANGED sweep
    /\ SimIdle
    /\ SearchIdle

OppReturn ==
    /\ opp # null
    /\ opp.pc = "map"
    /\ Len(opp.comparisons) = Len(opp.locals.tankSizesToCompare)
    /\ findBestValueTank(opp.comparisons) # null
    /\ opp' = [ opp EXCEPT !.pc = "returned",
                           !.result = [ threw |-> FALSE,
                                        value |-> OppResult(opp.comparisons,
                                                            opp.args.params,
                                                            opp.locals) ] ]
    /\ UNCHANGED sweep
    /\ SimIdle
    /\ SearchIdle

NextOpp == OppBegin \/ OppThrow \/ OppCompare \/ OppNoBestValue \/ OppReturn

SpecOpp == InitOpp /\ [][NextOpp]_vars

---------------------------------------------------------------------------
(* One call of analyzeSmallterTanks, a size at a time *)

InitSweep ==
    /\ sweep \in [ args : SweepArgs, pc : {"entry"}, uniqueSizes : {<<>>},
                   entries : {<<>>}, result : {null} ]
    /\ opp = null
    /\ search = null
    /\ spc = "idle"
    /\ tankSizing = null
    /\ config = null
    /\ pc = "idle"
    /\ st = null
    /\ result = null
    /\ simRuns = <<>>
    /\ earlier = <<>>
    /\ PageAbsent

\* the size the map callback is about to be called with
NextSize == sweep.uniqueSizes[Len(sweep.entries) + 1]

SweepRun ==
    runWaterBalance(SimConfig(sweep.args.rainfallData, NextSize, sweep.args.baseConfig))

SweepBegin ==
    /\ sweep # null
    /\ sweep.pc = "entry"
    /\ sweep' = [ sweep EXCEPT !.pc = "map",
                               !.uniqueSizes = UniqueSizes(sweep.args.recommendedSize) ]
    /\ UNCHANGED opp
    /\ SimIdle
    /\ SearchIdle

\* the simulator rejects the call and the error leaves the sweep
SweepThrow ==
    /\ sweep # null
    /\ sweep.pc = "map"
    /\ Len(sweep.entries) < Len(sweep.uniqueSizes)
    /\ SweepRun.threw
    /\ sweep' = [ sweep EXCEPT !.pc = "threw", !.result = SweepRun ]
    /\ UNCHANGED opp
    /\ SimIdle
    /\ SearchIdle

SweepSize ==
    /\ sweep # null
    /\ sweep.pc = "map"
    /\ Len(sweep.entries) < Len(sweep.uniqueSizes)
    /\ ~SweepRun.threw
    /\ sweep' = [ sweep EXCEPT !.entries =
                     Append(@, SweepEntry(SweepRun.value, NextSize)) ]
    /\ UNCHANGED opp
    /\ SimIdle
    /\ SearchIdle

SweepReturn ==
    /\ sweep # null
    /\ sweep.pc = "map"
    /\ Len(sweep.entries) = Len(sweep.uniqueSizes)
    /\ sweep' = [ sweep EXCEPT !.pc = "returned",
                               !.result = [ threw |-> FALSE, value |-> sweep.entries ] ]
    /\ UNCHANGED opp
    /\ SimIdle
    /\ SearchIdle

NextSweep == SweepBegin \/ SweepThrow \/ SweepSize \/ SweepReturn

SpecSweep == InitSweep /\ [][NextSweep]_vars

---------------------------------------------------------------------------
(* The loop of findMinimumTankForConfidence on any answers of the simulator *)

\* reliabilities a simulation may report, in percent
Answers == { Percent(0, 1), Percent(1, 2), Percent(1, 1) }

\* the target of the loop, per-mille
BracketTarget == 500

InitBracket ==
    /\ search = [ args |-> null, locals |-> SearchLocals ]
    /\ spc = "loop"
    /\ tankSizing = null
    /\ simRuns = <<>>
    /\ config = null
    /\ pc = "idle"
    /\ st = null
    /\ result = null
    /\ earlier = <<>>
    /\ PageAbsent
    /\ opp = null
    /\ sweep = null

\* one iteration (lines 111-129), the simulation answering anything
BracketStep ==
    /\ spc = "loop"
    /\ search.locals.low <= search.locals.high
    /\ \E reliabilityPercent \in Answers :
           search' = [ search EXCEPT !.locals =
                         Narrow(@, Mid(search.locals.low, search.locals.high),
                                reliabilityPercent,
                                MeetsTarget(reliabilityPercent, BracketTarget)) ]
    /\ simRuns' = Append(simRuns, Mid(search.locals.low, search.locals.high))
    /\ UNCHANGED <<spc, tankSizing>>
    /\ SimIdle
    /\ AnalysesIdle

\* the loop condition fails (line 111)
BracketExit ==
    /\ spc = "loop"
    /\ search.locals.low > search.locals.high
    /\ spc' = "exited"
    /\ UNCHANGED <<search, tankSizing, simRuns>>
    /\ SimIdle
    /\ AnalysesIdle

NextBracket == BracketStep \/ BracketExit

SpecBracket == InitBracket /\ [][NextBracket]_vars

\* the loop is synchronous: it runs until its condition fails
FairBracket == SpecBracket /\ WF_vars(NextBracket)

---------------------------------------------------------------------------
(* One call of analyzeDrySpells, a day at a time *)

InitSpells ==
    /\ spells \in [ args : SpellsArgs, pc : {"entry"}, locals : {null}, result : {null} ]
    /\ app = null
    /\ tasks = <<>>
    /\ opp = null
    /\ sweep = null
    /\ search = null
    /\ spc = "idle"
    /\ tankSizing = null
    /\ simRuns = <<>>
    /\ config = null
    /\ pc = "idle"
    /\ st = null
    /\ result = null
    /\ earlier = <<>>

SpellsFrame ==
    /\ UNCHANGED <<app, tasks, opp, sweep>>
    /\ UNCHANGED <<config, pc, st, result, earlier>>
    /\ SearchIdle

\* !rainfallData || rainfallData.length === 0 (lines 17-19)
SpellsThrow ==
    /\ spells # null
    /\ spells.pc = "entry"
    /\ NoRainfallData(spells.args)
    /\ spells' = [ spells EXCEPT !.pc = "threw",
                                 !.result = Threw("No rainfall data provided") ]
    /\ SpellsFrame

SpellsBegin ==
    /\ spells # null
    /\ spells.pc = "entry"
    /\ ~NoRainfallData(spells.args)
    /\ spells' = [ spells EXCEPT !.pc = "scan", !.locals = SpellLocals ]
    /\ SpellsFrame

SpellsDay ==
    /\ spells # null
    /\ spells.pc = "scan"
    /\ spells.locals.taken < Len(spells.args.rainfallData[1])
    /\ spells' = [ spells EXCEPT !.locals =
                      ScanDay(@, spells.args.rainfallData[1][spells.locals.taken + 1],
                              spells.args.threshold_mm) ]
    /\ SpellsFrame

SpellsReturn ==
    /\ spells # null
    /\ spells.pc = "scan"
    /\ spells.locals.taken = Len(spells.args.rainfallData[1])
    /\ spells' = [ spells EXCEPT
                     !.pc = "returned",
                     !.locals = [ @ EXCEPT !.drySpells = CloseSpell(spells.locals) ],
                     !.result = [ threw |-> FALSE,
                                  value |-> SpellsResult(spells.locals,
                                                         spells.args.rainfallData[1],
                                                         spells.args.threshold_mm) ] ]
    /\ SpellsFrame

NextSpells == SpellsThrow \/ SpellsBegin \/ SpellsDay \/ SpellsReturn

SpecSpells == InitSpells /\ [][NextSpells]_vars

---------------------------------------------------------------------------
(* The page: the wizard and its file uploads *)

InitPage ==
    /\ app = [ state |-> InitialState, elements |-> InitialElements ]
    /\ tasks = <<>>
    /\ spells = null
    /\ opp = null
    /\ sweep = null
    /\ search = null
    /\ spc = "idle"
    /\ tankSizing = null
    /\ simRuns = <<>>
    /\ config = null
    /\ pc = "idle"
    /\ st = null
    /\ result = null
    /\ earlier = <<>>

PageFrame ==
    /\ UNCHANGED <<spells, opp, sweep>>
    /\ UNCHANGED <<config, pc, st, result, earlier>>
    /\ SearchIdle

\* the sequence without its i-th entry
Remove(seq, i) == [ k \in 1..(Len(seq) - 1) |-> IF k < i THEN seq[k] ELSE seq[k + 1] ]

\* handleFileSelect / handleDrop: processFile runs to its first await
\* (lines 354-359, 380-388, 393-402)
ChooseFile ==
    /\ app.state.currentStep = "upload"
    /\ Len(tasks) < MaxUploads
    /\ \E file \in Files :
          /\ app' = ShowLoading(app)
          /\ tasks' = Append(tasks, [ file |-> file, at |-> "text" ])
    /\ PageFrame

\* file.text() resolves; processFile waits for its timer (lines 404-407)
TextRead ==
    /\ \E i \in 1..Len(tasks) :
          /\ tasks[i].at = "text"
          /\ tasks' = [ tasks EXCEPT ![i] = [ file |-> @.file, at |-> "timer",
                                               text |-> @.file.text ] ]
    /\ UNCHANGED app
    /\ PageFrame

\* the timer fires; processFile runs to its end (lines 407-431)
TimerFired ==
    /\ \E i \in 1..Len(tasks) :
          /\ tasks[i].at = "timer"
          /\ app' = Parsed(app, tasks[i].text)
          /\ tasks' = Remove(tasks, i)
    /\ PageFrame

\* btnToMode (line 279)
ToMode ==
    /\ app.state.currentStep = "upload"
    /\ ~app.elements.btnToMode.disabled
    /\ app' = showStep(app, "mode")
    /\ UNCHANGED tasks
    /\ PageFrame

\* btnBackToUpload (line 280)
BackToUpload ==
    /\ app.state.currentStep = "mode"
    /\ app' = showStep(app, "upload")
    /\ UNCHANGED tasks
    /\ PageFrame

\* a mode card (lines 288-290)
SelectMode ==
    /\ app.state.currentStep = "mode"
    /\ \E mode \in Modes : app' = selectMode(app, mode)
    /\ UNCHANGED tasks
    /\ PageFrame

\* btnToParams (line 281)
ToParams ==
    /\ app.state.currentStep = "mode"
    /\ ~app.elements.btnToParams.disabled
    /\ app' = showStep(app, "params")
    /\ UNCHANGED tasks
    /\ PageFrame

\* btnBackToMode (line 282)
BackToMode ==
    /\ app.state.currentStep = "params"
    /\ app' = showStep(app, "mode")
    /\ UNCHANGED tasks
    /\ PageFrame

\* typing into a number input (lines 293-296)
InputNumber ==
    /\ app.state.currentStep = "params"
    /\ \/ \E v \in RoofAreaInputs :
             app' = updateParams([ app EXCEPT !.elements.roofArea.value = v ])
       \/ \E v \in DailyUsageInputs :
             app' = updateParams([ app EXCEPT !.elements.dailyUsage.value = v ])
       \/ \E v \in WaterRateInputs :
             /\ app.state.mode # Some("security")
             /\ app' = updateParams([ app EXCEPT !.elements.waterRate.value = v ])
    /\ UNCHANGED tasks
    /\ PageFrame

\* moving the confidence slider, shown in security mode (lines 295, 450-455)
MoveSlider ==
    /\ app.state.currentStep = "params"
    /\ app.state.mode = Some("security")
    /\ \E v \in SliderValues :
          app' = updateConfidenceDisplay([ app EXCEPT !.elements.confidenceSlider.value = v ])
    /\ UNCHANGED tasks
    /\ PageFrame

\* a usage preset button (lines 299-301)
UsagePreset ==
    /\ app.state.currentStep = "params"
    /\ \E usage \in UsagePresets : app' = selectUsagePreset(app, usage)
    /\ UNCHANGED tasks
    /\ PageFrame

\* btnCalculate (line 283)
Calculate ==
    /\ app.state.currentStep = "params"
    /\ app' = runCalculation(app)
    /\ UNCHANGED tasks
    /\ PageFrame

\* btnBackToParams (line 284)
BackToParams ==
    /\ app.state.currentStep = "results"
    /\ app' = showStep(app, "params")
    /\ UNCHANGED tasks
    /\ PageFrame

\* btnStartOver (line 285)
StartOver ==
    /\ app.state.currentStep = "results"
    /\ app' = resetApp(app)
    /\ UNCHANGED tasks
    /\ PageFrame

\* a file is chosen when no other is being read
ChooseOneFile ==
    /\ tasks = <<>>
    /\ ChooseFile

\* the wizard, one file at a time
NextWizard ==
    \/ ChooseOneFile
    \/ TextRead
    \/ TimerFired
    \/ ToMode
    \/ BackToUpload
    \/ SelectMode
    \/ ToParams
    \/ BackToMode
    \/ InputNumber
    \/ MoveSlider
    \/ UsagePreset
    \/ Calculate
    \/ BackToParams
    \/ StartOver

SpecWizard == InitPage /\ [][NextWizard]_vars

\* the upload step, files being chosen while others are read
NextUpload == ChooseFile \/ TextRead \/ TimerFired

SpecUpload == InitPage /\ [][NextUpload]_vars

---------------------------------------------------------------------------
(* Properties of one runWaterBalance call *)

Running == pc \in {"loop", "returned"}

\* the daily states produced so far
Trace ==
    IF pc = "returned" THEN result.value.dailyLevels
    ELSE IF pc = "loop" THEN st.dailyLevels
    ELSE <<>>

Data == config.rainfallData[1]
Capacity == config.tankSize_L * 100
Usage == config.dailyUsage_L * 100

\* the level the tank starts from: the supplied level, or half the capacity,
\* brought into [0, capacity]
StartLevel ==
    LET given == IF config.initialLevel_L = <<>> THEN config.tankSize_L * 50
                 ELSE config.initialLevel_L[1] * 100
    IN  IF given < 0 THEN 0 ELSE IF given > Capacity THEN Capacity ELSE given

Coefficient ==
    IF config.runoffCoefficient = <<>> THEN 85 ELSE config.runoffCoefficient[1]

AllMissing(k) == \A j \in 1..k : Data[j].missing

\* C1: every daily state follows the recurrence: inflow is 0 on a missing day
\* and rainfall * area * coefficient otherwise, raw = previous level + inflow -
\* usage, overflow and deficit are the parts of raw above the capacity and
\* below zero, and the level is raw brought into [0, capacity]; the level
\* carried to the next day is the last level; on a series whose days are all
\* missing the level after k days is max(0, start - k * usage).
C1_Recurrence ==
    Running =>
        /\ \A k \in 1..Len(Trace) :
            LET prev == IF k = 1 THEN StartLevel ELSE Trace[k - 1].level_L
                inflow == IF Data[k].missing THEN 0
                          ELSE Data[k].rainfall_mm * config.roofArea_m2 * Coefficient
                raw == prev + inflow - Usage
            IN  /\ Trace[k].inflow_L = inflow
                /\ Trace[k].usage_L = Usage
                /\ Trace[k].overflow_L = (IF raw > Capacity THEN raw - Capacity ELSE 0)
                /\ Trace[k].deficit_L = (IF raw < 0 THEN 0 - raw ELSE 0)
                /\ Trace[k].level_L =
                       (IF raw < 0 THEN 0 ELSE IF raw > Capacity THEN Capacity ELSE raw)
                /\ AllMissing(k) =>
                       Trace[k].level_L =
                           (IF StartLevel - k * Usage > 0 THEN StartLevel - k * Usage ELSE 0)
        /\ pc = "loop" =>
               st.currentLevel =
                   (IF Len(Trace) = 0 THEN StartLevel ELSE Trace[Len(Trace)].level_L)

\* an all-missing series on which the level first falls and then stops at zero
C1_Witness ==
    /\ pc = "returned"
    /\ Len(Trace) >= 2
    /\ AllMissing(Len(Trace))
    /\ Trace[1].level_L > 0
    /\ Trace[Len(Trace)].level_L = 0
    /\ Trace[Len(Trace)].deficit_L > 0

\* C2: for a valid input every daily level, and the level carried from day to
\* day, lies in [0, tank capacity].
C2_LevelInRange ==
    Running =>
        /\ \A k \in 1..Len(Trace) :
               0 <= Trace[k].level_L /\ Trace[k].level_L <= Capacity
        /\ pc = "loop" => 0 <= st.currentLevel /\ st.currentLevel <= Capacity

\* a supplied initial level above the capacity, then a day that would overfill
\* the tank and a day that would drain it below zero
C2_Witness ==
    /\ Running
    /\ config.initialLevel_L = <<500>>
    /\ \E k \in 1..Len(Trace) : Trace[k].overflow_L > 0
    /\ \E k \in 1..Len(Trace) : Trace[k].deficit_L > 0

\* C3: on every day at most one of overflow and deficit is nonzero; overflow
\* leaves the tank full and deficit leaves it empty.
C3_OverflowXorDeficit ==
    Running =>
        \A k \in 1..Len(Trace) :
            /\ Trace[k].overflow_L > 0 => Trace[k].deficit_L = 0
            /\ Trace[k].deficit_L > 0 => Trace[k].overflow_L = 0
            /\ Trace[k].overflow_L > 0 => Trace[k].level_L = Capacity
            /\ Trace[k].deficit_L > 0 => Trace[k].level_L = 0

\* a run with an overflow day, a deficit day and a day with neither
C3_Witness ==
    /\ pc = "returned"
    /\ \E k \in 1..Len(Trace) : Trace[k].overflow_L > 0
    /\ \E k \in 1..Len(Trace) : Trace[k].deficit_L > 0
    /\ \E k \in 1..Len(Trace) : Trace[k].overflow_L = 0 /\ Trace[k].deficit_L = 0

RECURSIVE SumDuration(_)
SumDuration(periods) ==
    IF periods = <<>> THEN 0
    ELSE periods[1].duration + SumDuration(Tail(periods))

EmptyDays == { k \in 1..Len(Trace) : Trace[k].level_L = 0 }
StressedDays == { k \in 1..Len(Trace) : Trace[k].level_L < config.tankSize_L * 20 }

\* C4: in a returned result daysEmpty is the number of daily states at level
\* zero and the sum of the durations of emptyPeriods.
C4_DaysEmpty ==
    pc = "returned" =>
        /\ result.value.summary.daysEmpty = Cardinality(EmptyDays)
        /\ result.value.summary.daysEmpty = SumDuration(result.value.emptyPeriods)

\* two empty periods, the second still open when the series ends
C4_Witness ==
    /\ pc = "returned"
    /\ Len(result.value.emptyPeriods) = 2
    /\ Trace[Len(Trace)].level_L = 0

\* the periods are ordered, apart by at least one day, and cover exactly days
OrderedMaximalCover(periods, days) ==
    /\ \A j \in 1..Len(periods) : periods[j].startDate <= periods[j].endDate
    /\ \A j \in 1..(Len(periods) - 1) :
           periods[j].endDate + 1 < periods[j + 1].startDate
    /\ \A k \in 1..Len(Trace) :
           (k \in days) <=>
               \E j \in 1..Len(periods) :
                   periods[j].startDate <= Data[k].date
                       /\ Data[k].date <= periods[j].endDate

\* C5: emptyPeriods and stressPeriods are each ordered by start date,
\* non-overlapping, separated by at least one non-qualifying day, and cover
\* exactly the days at level zero, resp. below 20% of the capacity; a period
\* open on the last day is in its list once.
C5_Periods ==
    pc = "returned" =>
        /\ OrderedMaximalCover(result.value.emptyPeriods, EmptyDays)
        /\ OrderedMaximalCover(result.value.stressPeriods, StressedDays)

\* two empty periods, the first closed by a day with water and the second
\* open on the last day, inside one stress period that spans the whole series
C5_Witness ==
    /\ pc = "returned"
    /\ Len(Trace) = 3
    /\ Trace[1].level_L = 0
    /\ Trace[2].level_L > 0
    /\ Trace[3].level_L = 0
    /\ Len(result.value.emptyPeriods) = 2
    /\ Len(result.value.stressPeriods) = 1

\* C6: reliabilityPercent lies in [0, 100] and is 100 exactly when no day was
\* empty.
C6_Reliability ==
    pc = "returned" =>
        LET r == result.value.summary.reliabilityPercent
        IN  /\ r.den > 0
            /\ 0 <= r.num
            /\ r.num <= 100 * r.den
            /\ (r.num = 100 * r.den) <=> (result.value.summary.daysEmpty = 0)
            /\ r.num * Len(Trace) = (Len(Trace) - Cardinality(EmptyDays)) * 100 * r.den

\* a result with some but not all days empty
C6_Witness ==
    /\ pc = "returned"
    /\ result.value.summary.daysEmpty > 0
    /\ result.value.summary.daysEmpty < result.value.summary.totalDays

\* the inputs the contract rejects
Rejected ==
    \/ config.rainfallData = <<>>
    \/ config.rainfallData = << <<>> >>
    \/ config.tankSize_L <= 0
    \/ config.roofArea_m2 <= 0
    \/ config.dailyUsage_L <= 0

\* C7: a call with no or an empty series, or with a capacity, roof area or
\* daily usage that is not positive, ends in an error, with no result and
\* before any day is simulated.
C7_InvalidInput ==
    (Rejected /\ pc # "entry") =>
        /\ pc = "threw"
        /\ result.threw
        /\ st = null

\* a call rejected for a zero capacity although it was given data
C7_Witness ==
    /\ pc = "threw"
    /\ config.rainfallData # <<>>
    /\ config.rainfallData # << <<>> >>
    /\ config.tankSize_L = 0
    /\ config.roofArea_m2 > 0
    /\ config.dailyUsage_L > 0

---------------------------------------------------------------------------
(* Properties of one findMinimumTankForConfidence call *)

Target == search.args.targetConfidence

SearchDone == spc \in {"returned", "threw"}

\* the reliability percent of a fresh simulation of the search's series, roof
\* area and usage at a capacity
ReliabilityAt(size) ==
    runWaterBalance(SimConfig(search.args.rainfallData, size,
                              search.args.baseConfig)).value.summary.reliabilityPercent

\* reliability as a fraction >= target, i.e. percent >= target * 100
MeetsAt(size) ==
    LET r == ReliabilityAt(size) IN r.num * 10 >= Target * r.den

\* C8: a search asked for a confidence target outside (0, 1] fails with an
\* error and returns no sizing result.
C8_TargetRejected ==
    (SearchDone /\ (Target <= 0 \/ Target > 1000)) =>
        /\ spc = "threw"
        /\ tankSizing.threw

\* C9: a result with reachedLimit false has an achieved confidence, the
\* reliability percent of a simulation at the recommended size, of at least
\* target * 100; a result with reachedLimit true recommends MAX = 100000 L.
C9_AchievedConfidence ==
    spc = "returned" =>
        LET r == tankSizing.value
        IN  /\ RatEq(r.achievedConfidence, ReliabilityAt(r.recommendedSize))
            /\ ~r.reachedLimit =>
                   r.achievedConfidence.num * 10 >= Target * r.achievedConfidence.den
            /\ r.reachedLimit => r.recommendedSize = 100000

\* a search for a target in (0, 1] whose exact minimum lies between two
\* practical sizes, so that the recommended size was rounded up and simulated
C9_Witness ==
    /\ spc = "returned"
    /\ Target > 0
    /\ Target <= 1000
    /\ ~tankSizing.value.reachedLimit
    /\ tankSizing.value.exactMinimum > 1000
    /\ tankSizing.value.recommendedSize = tankSizing.value.exactMinimum + 500

\* the capacities of the search domain: multiples of 500 in [1000, 100000]
Grid == { 500 * k : k \in 2..200 }

\* C10: when the largest size meets the target, exactMinimum is the smallest
\* grid capacity whose simulated reliability is at least the target.
C10_ExactMinimum ==
    (spc = "returned" /\ ~tankSizing.value.reachedLimit) =>
        LET m == tankSizing.value.exactMinimum
        IN  /\ m \in Grid
            /\ MeetsAt(m)
            /\ \A g \in Grid : g < m => ~MeetsAt(g)

\* a search that ended strictly inside the domain on a reliability equal to
\* the target
C10_Witness ==
    /\ spc = "returned"
    /\ ~tankSizing.value.reachedLimit
    /\ tankSizing.value.exactMinimum > 1000
    /\ tankSizing.value.exactMinimum < 100000
    /\ Target > 0
    /\ ReliabilityAt(tankSizing.value.exactMinimum).num * 10
           = Target * ReliabilityAt(tankSizing.value.exactMinimum).den

\* C22: a result with reachedLimit false recommends the least multiple of 1000
\* that is at least exactMinimum, so 0 or 500 above it and never above MAX, and
\* its achievedConfidence is the reliability of a further simulation, run at
\* the recommended size after the loop, not the one recorded at exactMinimum.
C22_PracticalSize ==
    (spc = "returned" /\ ~tankSizing.value.reachedLimit) =>
        LET r == tankSizing.value
        IN  /\ r.exactMinimum = search.locals.bestSize
            /\ r.recommendedSize % 1000 = 0
            /\ r.recommendedSize >= r.exactMinimum
            /\ r.recommendedSize - r.exactMinimum \in {0, 500}
            /\ \A k \in 1..100 : 1000 * k >= r.exactMinimum
                                     => r.recommendedSize <= 1000 * k
            /\ r.recommendedSize <= SEARCH_MAX
            /\ simRuns[Len(simRuns)] = r.recommendedSize
            /\ RatEq(r.achievedConfidence, ReliabilityAt(r.recommendedSize))

\* a search whose recommended size is 500 above the exact minimum and more
\* reliable than it
C22_Witness ==
    /\ spc = "returned"
    /\ ~tankSizing.value.reachedLimit
    /\ Target > 0
    /\ Target <= 1000
    /\ tankSizing.value.recommendedSize = tankSizing.value.exactMinimum + 500
    /\ ~RatEq(tankSizing.value.achievedConfidence,
              ReliabilityAt(tankSizing.value.exactMinimum))
    /\ RatEq(ReliabilityAt(tankSizing.value.exactMinimum),
             [ num |-> search.locals.bestReliability.num * 100,
               den |-> search.locals.bestReliability.den ])

\* reliability at the largest size, as a fraction, below the target
MaxMisses == ReliabilityAt(100000).num * 10 < Target * ReliabilityAt(100000).den

\* C11: when the reliability simulated at MAX is below the target the search
\* returns {recommendedSize: MAX, achievedConfidence: that reliability,
\* reachedLimit: true} after exactly one simulator run, the loop having left
\* its locals untouched; and reachedLimit is true in no other case.
C11_LimitSkipsSearch ==
    spc = "returned" =>
        /\ tankSizing.value.reachedLimit <=> MaxMisses
        /\ MaxMisses =>
            /\ tankSizing.value =
                   [ recommendedSize |-> 100000,
                     achievedConfidence |-> ReliabilityAt(100000),
                     reachedLimit |-> TRUE ]
            /\ simRuns = <<100000>>
            /\ search.locals = SearchLocals
        /\ ~MaxMisses => Len(simRuns) >= 3

\* a target in (0, 1] that even the largest tank misses
C11_Witness ==
    /\ spc = "returned"
    /\ Target > 0
    /\ Target <= 1000
    /\ tankSizing.value.reachedLimit
    /\ simRuns = <<100000>>

\* capacities at and above a recommended size: the size itself, the next
\* litre, the grid capacities of the next 5000 L, every larger multiple of
\* 5000 L in the search domain, and sizes beyond the domain
Probes(size) ==
    {size, size + 1, size + 250}
        \cup { g \in Grid : g >= size /\ (g <= size + 5000 \/ g % 5000 = 0) }
        \cup {150000, 1000000}

\* C12: after a result with reachedLimit false, a simulation of the same
\* series, roof area and usage at any capacity >= recommendedSize has a
\* reliability not below the target; so no result stands on a recommended
\* size that a larger capacity contradicts.
C12_LargerSizesMeetTarget ==
    (spc = "returned" /\ ~tankSizing.value.reachedLimit) =>
        \A size \in Probes(tankSizing.value.recommendedSize) : MeetsAt(size)

\* a search for a target in (0, 1] that ended strictly inside the domain, so
\* that there are smaller capacities that miss the target and larger ones to probe
C12_Witness ==
    /\ spc = "returned"
    /\ Target > 0
    /\ Target <= 1000
    /\ ~tankSizing.value.reachedLimit
    /\ tankSizing.value.recommendedSize > 1000
    /\ tankSizing.value.recommendedSize < 100000
    /\ ~MeetsAt(tankSizing.value.recommendedSize - 1000)

---------------------------------------------------------------------------
(* Properties relating runWaterBalance calls *)

\* capacities to compare the call under way with, in litres
OtherSizes == {1, 50, 99, 100, 101, 150, 200, 250, 1000}

\* the result of the call under way repeated at another capacity
AtSize(size) == runWaterBalance([ config EXCEPT !.tankSize_L = size ]).value

\* the first result never has the higher level, the fewer empty days or the
\* higher reliability
NoBetter(small, large) ==
    /\ \A k \in 1..Len(small.dailyLevels) :
           small.dailyLevels[k].level_L <= large.dailyLevels[k].level_L
    /\ large.summary.daysEmpty <= small.summary.daysEmpty
    /\ small.summary.reliabilityPercent.num * large.summary.reliabilityPercent.den
           <= large.summary.reliabilityPercent.num * small.summary.reliabilityPercent.den

\* C13: with the default half-capacity initial level and the same series, roof
\* area, usage and coefficient, a capacity C1 <= C2 has on every day a level no
\* higher than C2 has, hence no fewer empty days and no higher reliability.
C13_Monotone ==
    (pc = "returned" /\ config.initialLevel_L = <<>>) =>
        \A size \in OtherSizes :
            /\ size <= config.tankSize_L => NoBetter(AtSize(size), result.value)
            /\ size >= config.tankSize_L => NoBetter(result.value, AtSize(size))

\* a larger capacity that has strictly fewer empty days than the call under way
C13_Witness ==
    /\ pc = "returned"
    /\ config.initialLevel_L = <<>>
    /\ Len(Trace) >= 2
    /\ \E size \in OtherSizes :
           /\ size > config.tankSize_L
           /\ AtSize(size).summary.daysEmpty < result.value.summary.daysEmpty
           /\ AtSize(size).summary.daysEmpty > 0

\* other values of every parameter but the series
OtherParameters ==
    [ tankSize_L : {7, 100, 200},
      roofArea_m2 : {3, 100},
      dailyUsage_L : {50, 120},
      runoffCoefficient : {None, Some(50)},
      initialLevel_L : {None, Some(60)} ]

OnSameSeries(v) ==
    runWaterBalance([ rainfallData |-> config.rainfallData,
                      tankSize_L |-> v.tankSize_L,
                      roofArea_m2 |-> v.roofArea_m2,
                      dailyUsage_L |-> v.dailyUsage_L,
                      runoffCoefficient |-> v.runoffCoefficient,
                      initialLevel_L |-> v.initialLevel_L ])

---------------------------------------------------------------------------
(* Properties of the worst dry spell *)

\* rainfall of day k, a missing day counting as 0 mm
RainOf(k) == IF Data[k].missing THEN 0 ELSE Data[k].rainfall_mm

RECURSIVE RainBetween(_, _)
RainBetween(from, to) ==
    IF to < from THEN 0 ELSE RainBetween(from, to - 1) + RainOf(to)

\* the run that starts on day from still averages below 2 mm when extended to
\* day to
Joins(from, to) == RainBetween(from, to) < 2 * (to - from + 1)

\* the last day of the run that starts on day from
RunEnd(from) ==
    CHOOSE e \in from..Len(Data) :
        /\ \A j \in (from + 1)..e : Joins(from, j)
        /\ e = Len(Data) \/ ~Joins(from, e + 1)

\* the first days of the runs from day from on
RECURSIVE RunStarts(_)
RunStarts(from) ==
    IF from > Len(Data) THEN {} ELSE {from} \cup RunStarts(RunEnd(from) + 1)

RunLength(from) == RunEnd(from) - from + 1

\* C23: the detector cuts the series into consecutive runs that cover every
\* day: a day joins the current run iff the run's total with that day, divided
\* by its length with that day, is below 2, otherwise it starts the next run;
\* missing days count as 0 mm.  The result is the longest run, the earliest of
\* the longest, the run open at the end of the data included.
C23_LongestRun ==
    pc = "returned" =>
        LET starts == RunStarts(1)
            best == CHOOSE s \in starts :
                        \A t \in starts :
                            \/ RunLength(s) > RunLength(t)
                            \/ RunLength(s) = RunLength(t) /\ s <= t
            w == result.value.worstDrySpell
        IN  /\ \A k \in 1..Len(Data) :
                   \E s \in starts : s <= k /\ k <= RunEnd(s)
            /\ \A s, t \in starts : s < t => RunEnd(s) < t
            /\ w.startDate = Data[best].date
            /\ w.endDate = Data[RunEnd(best)].date
            /\ w.duration = RunLength(best)
            /\ w.totalRainfall = RainBetween(best, RunEnd(best))

\* a series whose longest run is the one open at the end, after a closed run,
\* with a missing day in it
C23_Witness ==
    /\ pc = "returned"
    /\ Len(Data) >= 3
    /\ Cardinality(RunStarts(1)) >= 2
    /\ result.value.worstDrySpell.endDate = Data[Len(Data)].date
    /\ result.value.worstDrySpell.startDate > Data[1].date
    /\ result.value.worstDrySpell.duration >= 2
    /\ \E k \in 1..Len(Data) : Data[k].missing

\* a tie between runs, settled for the earlier one
C23_TieReached ==
    /\ pc = "returned"
    /\ \E s, t \in RunStarts(1) : s < t /\ RunLength(s) = RunLength(t)
                                   /\ result.value.worstDrySpell.startDate = Data[s].date

\* C24: the worst dry spell of a non-empty series averages less than 2 mm a
\* day: totalRainfall / duration < 2.
C24_SpellIsDry ==
    pc = "returned" =>
        /\ result.value.worstDrySpell.duration > 0
        /\ result.value.worstDrySpell.totalRainfall
               < 2 * result.value.worstDrySpell.duration

---------------------------------------------------------------------------
(* Properties of one analyzeOpportunisticMode call *)

OppRunning == opp.pc \in {"map", "returned"}
OppReturned == opp.pc = "returned"
Candidates == opp.locals.tankSizesToCompare
DefaultList == opp.args.params.tankSizesToCompare = <<>>

\* p <= q for two ratios with positive denominators
AtMost(p, q) == p.num * q.den <= q.num * p.den

\* C14: along the default comparison list 2000, 5000, 10000, 15000, 20000,
\* 25000 a larger tank never has the smaller percentOffset nor the larger
\* total deficit, whatever the dataset, the area and the usage.
C14_OffsetNonDecreasing ==
    (OppRunning /\ DefaultList) =>
        \A i, j \in 1..Len(opp.comparisons) :
            i < j =>
                /\ opp.comparisons[i].tankSize_L < opp.comparisons[j].tankSize_L
                /\ AtMost(opp.comparisons[i].percentOffset,
                          opp.comparisons[j].percentOffset)
                /\ opp.comparisons[j].mainsWaterNeeded_L
                       <= opp.comparisons[i].mainsWaterNeeded_L

\* a call on the default list where the offset rises, then stays level, and
\* the smallest tank leaves a deficit
C14_Witness ==
    /\ OppReturned
    /\ DefaultList
    /\ Len(opp.comparisons) = 6
    /\ opp.comparisons[1].mainsWaterNeeded_L > 0
    /\ ~AtMost(opp.comparisons[3].percentOffset, opp.comparisons[2].percentOffset)
    /\ opp.comparisons[5].percentOffset = opp.comparisons[6].percentOffset

\* the marginal efficiency of the pair (i, i + 1), from the entries returned
StepEfficiency(i) ==
    RatDiv(RatSub(opp.comparisons[i + 1].percentOffset,
                  opp.comparisons[i].percentOffset),
           Ratio(opp.comparisons[i + 1].tankSize_L - opp.comparisons[i].tankSize_L,
                 1000))

BelowFloor(i) == LessThan(StepEfficiency(i), Whole(2))

HalvedAt(i) ==
    /\ i > 1
    /\ ~IsNaN(StepEfficiency(i - 1))
    /\ LessThan(StepEfficiency(i), RatDiv(StepEfficiency(i - 1), Whole(2)))

StopsAt(i) == BelowFloor(i) \/ HalvedAt(i)

FirstStop(i) == StopsAt(i) /\ \A j \in 1..(i - 1) : ~StopsAt(j)

\* C15: walking the consecutive pairs from first to last, the best-value
\* candidate is the lower one of the first pair whose marginal efficiency is
\* below 2 or, after the first pair, below half the preceding pair's; when no
\* pair stops the walk it is the last candidate, and a single candidate is
\* selected as it is.
C15_KneeSelection ==
    OppReturned =>
        LET n == Len(opp.comparisons)
            best == opp.result.value.bestValueSize
        IN  /\ n >= 1
            /\ \A i \in 1..(n - 1) :
                   FirstStop(i) => best = opp.comparisons[i].tankSize_L
            /\ (\A i \in 1..(n - 1) : ~StopsAt(i)) =>
                   best = opp.comparisons[n].tankSize_L

\* a call that stops at the second pair on the halving rule alone
C15_Witness ==
    /\ OppReturned
    /\ Len(opp.comparisons) >= 3
    /\ FirstStop(2)
    /\ ~BelowFloor(2)
    /\ opp.result.value.bestValueSize = opp.comparisons[2].tankSize_L

\* calls that stop on the floor, and calls that never stop
C15_FloorReached ==
    /\ OppReturned
    /\ Len(opp.comparisons) >= 3
    /\ FirstStop(2)
    /\ BelowFloor(2)

C15_NoStopReached ==
    /\ OppReturned
    /\ Len(opp.comparisons) >= 3
    /\ \A i \in 1..(Len(opp.comparisons) - 1) : ~StopsAt(i)

\* the call with the candidates replaced by the list given
WithCandidates(list) ==
    analyzeOpportunisticMode(opp.args.rainfallData,
        [ opp.args.params EXCEPT !.tankSizesToCompare = <<list>> ])

Arrangements(list) ==
    { [ k \in 1..Len(list) |-> list[f[k]] ] :
        f \in { g \in [1..Len(list) -> 1..Len(list)] :
                  \A a, b \in 1..Len(list) : a # b => g[a] # g[b] } }

Ascending(list) == \A k \in 1..(Len(list) - 1) : list[k] <= list[k + 1]

\* C16: for a list of candidates supplied by the caller, bestValueSize is the
\* same for every arrangement of the list, and is the one selected on the list
\* in ascending order of capacity.
C16_OrderIrrelevant ==
    (OppReturned /\ ~DefaultList) =>
        \A list \in Arrangements(Candidates) :
            /\ ~WithCandidates(list).threw
            /\ WithCandidates(list).value.bestValueSize
                   = opp.result.value.bestValueSize

C16_AscendingReached ==
    /\ OppReturned
    /\ ~DefaultList
    /\ Len(Candidates) = 3
    /\ ~Ascending(Candidates)
    /\ \E list \in Arrangements(Candidates) :
           /\ Ascending(list)
           /\ WithCandidates(list).value.bestValueSize
                  # opp.result.value.bestValueSize

OppDone == opp.pc \in {"returned", "threw"}

\* every day is missing or has 0 mm: the potential capture is zero
NoRain ==
    \A k \in 1..Len(opp.args.rainfallData) :
        opp.args.rainfallData[k].missing \/ opp.args.rainfallData[k].rainfall_mm = 0

\* arguments the simulator accepts for every candidate
OppArgsValid ==
    /\ Len(opp.args.rainfallData) > 0
    /\ opp.args.params.roofArea_m2 > 0
    /\ opp.args.params.dailyUsage_L > 0
    /\ Len(Candidates) > 0
    /\ \A k \in 1..Len(Candidates) : Candidates[k] > 0

Finite(p) == p.den > 0

\* C18 as stated: a call whose total potential capture is zero fails, it does
\* not report captureEfficiency = 0 and overflowPercent = 0.
C18_ZeroCaptureFails ==
    (OppDone /\ NoRain) =>
        /\ opp.pc = "threw"
        /\ opp.result.threw

\* C18, amended: with otherwise valid arguments a call whose total potential
\* capture is zero returns; every candidate is reported with
\* captureEfficiency = 0 and overflowPercent = 0, and no number returned is
\* NaN or infinite.
C18_ZeroCaptureReported ==
    (OppDone /\ NoRain /\ OppArgsValid) =>
        /\ OppReturned
        /\ ~opp.result.threw
        /\ opp.result.value.roofPotential.total_L = 0
        /\ Len(opp.result.value.comparisons) = Len(Candidates)
        /\ \A k \in 1..Len(opp.result.value.comparisons) :
               LET e == opp.result.value.comparisons[k]
               IN  /\ e.captureEfficiency = [num |-> 0, den |-> 1]
                   /\ e.overflowPercent = [num |-> 0, den |-> 1]
                   /\ e.overflow_L = 0
                   /\ Finite(e.percentOffset)
                   /\ Finite(e.annualRainwaterUsed_L)
                   /\ Finite(e.annualMainsNeeded_L)
                   /\ Finite(e.annualSavings)
        /\ Finite(opp.result.value.roofPotential.annual_L)
        /\ Finite(opp.result.value.roofPotential.annual_kL)
        /\ Finite(opp.result.value.roofPotential.annualValue)
        /\ Finite(opp.result.value.waterCost.annualDemand_kL)
        /\ Finite(opp.result.value.waterCost.annualCost)

\* a returned call on a series of dry and missing days, with a deficit
C18_Witness ==
    /\ OppReturned
    /\ NoRain
    /\ Len(opp.args.rainfallData) >= 2
    /\ \E k \in 1..Len(opp.args.rainfallData) : opp.args.rainfallData[k].missing
    /\ \E k \in 1..Len(opp.args.rainfallData) : ~opp.args.rainfallData[k].missing
    /\ Len(opp.result.value.comparisons) >= 2
    /\ opp.result.value.comparisons[1].mainsWaterNeeded_L > 0
    /\ opp.result.value.comparisons[1].captureEfficiency = [num |-> 0, den |-> 1]

---------------------------------------------------------------------------
(* Properties of one analyzeSmallterTanks call *)

\* the capacities the sweep has simulated so far
Evaluated == [ k \in 1..Len(sweep.entries) |-> sweep.entries[k].tankSize_L ]

\* C17: every capacity the comparison sweep evaluates is strictly smaller than
\* recommendedSize, for every multiple of 1000 from 1000 to 100000; the list of
\* capacities is strictly descending (so without duplicates), and each is a
\* multiple of 1000 that is at least 1000.
C17_SweepBelowRecommended ==
    sweep.pc \in {"map", "returned"} =>
        /\ \A k \in 1..Len(Evaluated) :
               /\ Evaluated[k] < sweep.args.recommendedSize
               /\ Evaluated[k] >= 1000
               /\ Evaluated[k] % 1000 = 0
        /\ \A k \in 1..(Len(Evaluated) - 1) : Evaluated[k] > Evaluated[k + 1]

\* the part of C17 about the list alone, and where the first part fails
C17_SweepWellFormed ==
    sweep.pc \in {"map", "returned"} =>
        /\ \A k \in 1..Len(Evaluated) :
               /\ Evaluated[k] <= sweep.args.recommendedSize
               /\ Evaluated[k] = sweep.args.recommendedSize
                      => sweep.args.recommendedSize \in {1000, 2000}
               /\ Evaluated[k] >= 1000
               /\ Evaluated[k] % 1000 = 0
        /\ \A k \in 1..(Len(Evaluated) - 1) : Evaluated[k] > Evaluated[k + 1]

---------------------------------------------------------------------------
(* Properties of calls made one after the other *)

Finished == pc \in {"returned", "threw"}

\* the calls made so far that have finished, the current one last
Calls ==
    IF Finished THEN Append(earlier, [ config |-> config, result |-> result ])
    ELSE earlier

\* C20: calls are independent and free of side effects: the caller's series is
\* the same before and after every call, nothing of one call is seen by a
\* later one, and calls with the same inputs return equal results whatever was
\* called before or between them.
C20_CallsIndependent ==
    /\ \A i \in 1..Len(earlier) :
           earlier[i].config.rainfallData = config.rainfallData
    /\ \A i, j \in 1..Len(Calls) :
           Calls[i].config = Calls[j].config => Calls[i].result = Calls[j].result
    /\ pc = "entry" => st = null /\ result = null

\* three calls: a size, another size with another result, the first size again
C20_Witness ==
    /\ pc = "returned"
    /\ Len(earlier) = 2
    /\ earlier[1].config = config
    /\ earlier[2].config # config
    /\ ~earlier[2].result.threw
    /\ earlier[2].result # result
    /\ earlier[1].result = result
    /\ Len(result.value.dailyLevels) >= 2
    /\ result.value.summary.daysEmpty > 0
    /\ LET last == earlier[2].result.value.dailyLevels
       IN  last[Len(last)].level_L # result.value.dailyLevels[Len(last)].level_L

---------------------------------------------------------------------------
(* Properties of the water account of a simulation *)

\* the sum of a field of the first n daily states
RECURSIVE Total(_, _)
Total(n, field) == IF n = 0 THEN 0 ELSE Total(n - 1, field) + Trace[n][field]

LevelAfter(n) == IF n = 0 THEN StartLevel ELSE Trace[n].level_L

\* C28: over every prefix of n simulated days the water that came in equals
\* the water accounted for: start level + inflows - n * usage = level after
\* day n + overflows - deficits, the overflows and deficits being the running
\* totals totalOverflow_L and totalDeficit_L.
C28_Conservation ==
    Running =>
        /\ \A n \in 0..Len(Trace) :
              StartLevel + Total(n, "inflow_L") - n * Usage
                  = LevelAfter(n) + Total(n, "overflow_L") - Total(n, "deficit_L")
        /\ pc = "loop" =>
              /\ st.totalOverflow_L = Total(Len(Trace), "overflow_L")
              /\ st.totalDeficit_L = Total(Len(Trace), "deficit_L")
              /\ st.currentLevel = LevelAfter(Len(Trace))
        /\ pc = "returned" =>
              /\ result.value.summary.totalOverflow_L = Total(Len(Trace), "overflow_L")
              /\ result.value.summary.totalDeficit_L = Total(Len(Trace), "deficit_L")

\* three days with rain, an overflow and a deficit, from a supplied level
\* outside the tank
C28_Witness ==
    /\ pc = "returned"
    /\ Len(Trace) = 3
    /\ config.initialLevel_L = <<500>>
    /\ result.value.summary.totalOverflow_L > 0
    /\ result.value.summary.totalDeficit_L > 0
    /\ Total(3, "inflow_L") > 0

---------------------------------------------------------------------------
(* Properties of the periods of a simulation *)

\* the days from startDate to endDate, both included
Span(period) == period.endDate - period.startDate + 1

RECURSIVE SumSpan(_)
SumSpan(periods) ==
    IF periods = <<>> THEN 0
    ELSE Span(periods[1]) + SumSpan(Tail(periods))

\* C26 as stated: every period of either kind has a duration field that is
\* the number of days of its run, and the durations of stressPeriods sum to
\* daysBelowStress.
C26_StressDuration ==
    pc = "returned" =>
        /\ \A i \in 1..Len(result.value.emptyPeriods) :
              /\ "duration" \in DOMAIN result.value.emptyPeriods[i]
              /\ result.value.emptyPeriods[i].duration = Span(result.value.emptyPeriods[i])
        /\ \A i \in 1..Len(result.value.stressPeriods) :
              /\ "duration" \in DOMAIN result.value.stressPeriods[i]
              /\ result.value.stressPeriods[i].duration = Span(result.value.stressPeriods[i])
        /\ SumDuration(result.value.stressPeriods) = result.value.summary.daysBelowStress

\* C26, amended: every empty period has a duration field that is the number
\* of days from its startDate to its endDate; a stress period has the
\* fields startDate, endDate, minLevel and year and no duration, and the
\* days from startDate to endDate of the stress periods sum to
\* daysBelowStress.
C26_PeriodFields ==
    pc = "returned" =>
        /\ \A i \in 1..Len(result.value.emptyPeriods) :
              /\ DOMAIN result.value.emptyPeriods[i]
                    = {"startDate", "endDate", "duration", "year"}
              /\ result.value.emptyPeriods[i].duration = Span(result.value.emptyPeriods[i])
        /\ \A i \in 1..Len(result.value.stressPeriods) :
              DOMAIN result.value.stressPeriods[i]
                  = {"startDate", "endDate", "minLevel", "year"}
        /\ SumSpan(result.value.stressPeriods) = result.value.summary.daysBelowStress

\* a stress period of two days next to a day that is not stressed, with an
\* empty period inside it
C26_Witness ==
    /\ pc = "returned"
    /\ result.value.summary.totalDays = 3
    /\ Len(result.value.stressPeriods) = 1
    /\ Span(result.value.stressPeriods[1]) = 2
    /\ result.value.summary.daysBelowStress = 2
    /\ Len(result.value.emptyPeriods) = 1

\* the lowest level of the days from a to b
LowestLevel(a, b) ==
    CHOOSE v \in { Trace[k].level_L : k \in a..b } :
        \A k \in a..b : v <= Trace[k].level_L

\* C29: in a returned result daysEmpty <= daysBelowStress <= daysBelow50pct
\* <= totalDays, an empty day is a stressed day, every empty period lies
\* inside one stress period whose minLevel is 0, and the minLevel of a stress
\* period is the lowest level_L of its days.
C29_NestedCounts ==
    pc = "returned" =>
        LET r == result.value
        IN  /\ r.summary.daysEmpty <= r.summary.daysBelowStress
            /\ r.summary.daysBelowStress <= r.summary.daysBelow50pct
            /\ r.summary.daysBelow50pct <= r.summary.totalDays
            /\ r.summary.totalDays = Len(Data)
            /\ \A k \in 1..Len(Trace) :
                  /\ Trace[k].isEmpty => Trace[k].isStressed
                  /\ Trace[k].level_L = 0 => Trace[k].level_L * 5 < Capacity
            /\ \A i \in 1..Len(r.emptyPeriods) :
                  \E j \in 1..Len(r.stressPeriods) :
                      /\ r.stressPeriods[j].startDate <= r.emptyPeriods[i].startDate
                      /\ r.emptyPeriods[i].endDate <= r.stressPeriods[j].endDate
                      /\ r.stressPeriods[j].minLevel = 0
            /\ \A j \in 1..Len(r.stressPeriods) :
                  r.stressPeriods[j].minLevel
                      = LowestLevel(r.stressPeriods[j].startDate, r.stressPeriods[j].endDate)

\* a day below half but not stressed, a stressed day that is not empty and
\* an empty day; the empty period is the end of a longer stress period
C29_Witness ==
    /\ pc = "returned"
    /\ 0 < result.value.summary.daysEmpty
    /\ result.value.summary.daysEmpty < result.value.summary.daysBelowStress
    /\ result.value.summary.daysBelowStress < result.value.summary.daysBelow50pct
    /\ Len(result.value.emptyPeriods) = 1
    /\ Len(result.value.stressPeriods) = 1
    /\ result.value.stressPeriods[1].startDate < result.value.emptyPeriods[1].startDate

\* a full tank on every day: no day below half, stressed or empty
C29_NoneBelowHalf ==
    /\ pc = "returned"
    /\ result.value.summary.daysBelow50pct = 0
    /\ result.value.summary.totalDays = 3

---------------------------------------------------------------------------
(* Properties of the threshold-run detector *)

DetectorReturned ==
    /\ spells # null
    /\ spells.pc = "returned"

DetectorData == spells.args.rainfallData[1]

\* day k is dry: missing, or less rain than the threshold (1 mm by default)
DryAt(k) ==
    \/ DetectorData[k].missing
    \/ DetectorData[k].rainfall_mm <
           (IF spells.args.threshold_mm = None THEN 1 ELSE spells.args.threshold_mm[1])

DryBefore(k) == IF k = 1 THEN FALSE ELSE DryAt(k - 1)

DryAfter(k) == IF k = Len(DetectorData) THEN FALSE ELSE DryAt(k + 1)

DryDays == { k \in 1..Len(DetectorData) : DryAt(k) }

\* the days on which a run of dry days starts, and on which one ends
RunFirstDays == { k \in DryDays : ~DryBefore(k) }

RunLastDays == { k \in DryDays : ~DryAfter(k) }

\* the maximal runs of dry days, as pairs of first and last day
MaximalRuns ==
    LET firsts == RunFirstDays
        lasts == RunLastDays
    IN  { <<a, CHOOSE b \in lasts : b >= a /\ \A c \in lasts : c >= a => b <= c>> :
            a \in firsts }

BinRanges ==
    << <<1, 3>>, <<4, 7>>, <<8, 14>>, <<15, 30>>, <<31, 60>>, <<61, 61 + Len(DetectorData)>> >>

\* C25: analyzeDrySpells returns exactly the maximal runs of dry days (a day
\* being dry iff missing or below the threshold), in order, apart from one
\* another by a day that is not dry, the run open on the last day included;
\* totalDryDays is the number of dry days, every run is in exactly one of
\* the six duration bins, whose counts sum to totalSpells, and longestSpell
\* has the largest duration.
C25_MaximalRuns ==
    DetectorReturned =>
        LET r == spells.result.value
            runs == r.drySpells
        IN  /\ { <<runs[i].startDate, runs[i].endDate>> : i \in 1..Len(runs) } = MaximalRuns
            /\ Len(runs) = Cardinality(MaximalRuns)
            /\ \A i \in 1..Len(runs) :
                  runs[i].duration = runs[i].endDate - runs[i].startDate + 1
            /\ \A i \in 1..(Len(runs) - 1) :
                  /\ runs[i].endDate + 1 < runs[i + 1].startDate
                  /\ \E k \in (runs[i].endDate + 1)..(runs[i + 1].startDate - 1) : ~DryAt(k)
            /\ r.statistics.totalSpells = Len(runs)
            /\ r.statistics.totalDryDays = Cardinality(DryDays)
            /\ Len(r.bins) = 6
            /\ \A b \in 1..6 :
                  /\ r.bins[b].count =
                        Cardinality({ i \in 1..Len(runs) :
                                        /\ runs[i].duration >= BinRanges[b][1]
                                        /\ runs[i].duration <= BinRanges[b][2] })
                  /\ r.bins[b].count = Len(r.bins[b].spells)
                  /\ \A j \in 1..Len(r.bins[b].spells) :
                        \E i \in 1..Len(runs) : runs[i] = r.bins[b].spells[j]
            /\ r.bins[1].count + r.bins[2].count + r.bins[3].count
                  + r.bins[4].count + r.bins[5].count + r.bins[6].count
                  = r.statistics.totalSpells
            /\ \A i \in 1..Len(runs) : runs[i].duration <= r.longestSpell.duration
            /\ Len(runs) > 0 => \E i \in 1..Len(runs) : runs[i] = r.longestSpell

\* a run of more than 60 days is followed by a run that is open on the last
\* day and falls in another bin
C25_Witness ==
    /\ DetectorReturned
    /\ Len(spells.result.value.drySpells) = 2
    /\ spells.result.value.bins[6].count = 1
    /\ spells.result.value.bins[2].count = 1
    /\ spells.result.value.drySpells[2].endDate = Len(DetectorData)
    /\ spells.result.value.longestSpell = spells.result.value.drySpells[1]

\* a missing day is dry under a threshold of zero
C25_MissingIsDry ==
    /\ DetectorReturned
    /\ spells.args.threshold_mm = Some(0)
    /\ spells.result.value.statistics.totalDryDays > 0

---------------------------------------------------------------------------
(* Properties of the page *)

\* the step Start Over takes: the only one from the results to the upload
StartOverStep ==
    /\ app.state.currentStep = "results"
    /\ app'.state.currentStep = "upload"

\* the step of a security calculation
SecurityCalculationStep ==
    /\ app.state.currentStep = "params"
    /\ app'.state.currentStep = "results"
    /\ app.state.mode = Some("security")

\* a security calculation uses the confidence the slider displays
UsesDisplayedConfidence ==
    app'.state.results.options.confidenceLevel = app.elements.confidenceSlider.value * 10

\* C27: Start Over leaves state equal to the initial state, parameters
\* included, and every security calculation uses the confidence the slider
\* displays.
C27_ResetRestoresState ==
    [][ /\ StartOverStep => app'.state = InitialState
        /\ SecurityCalculationStep => UsesDisplayedConfidence ]_vars

\* the second half of C27 alone: a security calculation uses the confidence
\* the slider displays
C27_DisplayedConfidenceUsed ==
    [][ SecurityCalculationStep => UsesDisplayedConfidence ]_vars

\* the status indicators that are visible
VisibleIndicators ==
    { e \in {"statusLoading", "statusSuccess", "statusError"} : ~app.elements[e].hidden }

\* every processFile invocation has finished, and at least one was made
UploadsFinished ==
    /\ app # null
    /\ tasks = <<>>
    /\ ~app.elements.uploadStatus.hidden

\* C30: once every overlapping processFile invocation has finished exactly
\* one status indicator is visible, and btnToMode is enabled only if that
\* indicator is the success one and state.rainfallData is the data of the
\* file whose summary it shows.
C30_OneIndicator ==
    UploadsFinished =>
        /\ Cardinality(VisibleIndicators) = 1
        /\ ~app.elements.btnToMode.disabled =>
              /\ VisibleIndicators = {"statusSuccess"}
              /\ app.state.parseResult # null
              /\ app.state.rainfallData = Some(app.state.parseResult.data)
              /\ app.elements.dataSummary.textContent
                    = generateDataSummary(app.state.parseResult)

---------------------------------------------------------------------------
(* Properties of the search loop on any answers *)

BracketWidth == search.locals.high - search.locals.low

\* C21: whatever the simulations answer, monotone in the size or not, the
\* binary search leaves its loop after at most 8 iterations; in each iteration
\* the snapped midpoint is a multiple of SEARCH_STEP within [low, high], and the
\* bracket [low, high] gets strictly narrower.
C21_LoopTerminates ==
    /\ [](Len(simRuns) <= 8)
    /\ [][ simRuns' # simRuns =>
             LET mid == simRuns'[Len(simRuns')]
             IN  /\ Len(simRuns') = Len(simRuns) + 1
                 /\ mid % SEARCH_STEP = 0
                 /\ search.locals.low <= mid
                 /\ mid <= search.locals.high
                 /\ search.locals'.low >= search.locals.low
                 /\ search.locals'.high <= search.locals.high
                 /\ search.locals'.high - search.locals'.low < BracketWidth ]_vars
    /\ <>(spc = "exited")

\* a loop left after exactly 8 iterations, some of which met the target and
\* some of which missed it
C21_Witness ==
    /\ spc = "exited"
    /\ Len(simRuns) = 8
    /\ search.locals.low > search.locals.high
    /\ search.locals.low > SEARCH_MIN
    /\ search.locals.high < SEARCH_MAX
    /\ search.locals.bestSize \in { simRuns[i] : i \in 1..Len(simRuns) }

===========================================================================
